---- MODULE Spec2Model ----
(***************************************************************************)
(* Model of the ZIP (STORE) writer of raffle-bot-site (lib/zip.ts):        *)
(* normalizePath, toBytes, crc32, u16le/u32le, concat and createZipStore.  *)
(* Strings are sequences of UTF-16 code units, buffers are sequences of    *)
(* bytes (0..255).                                                         *)
(*                                                                         *)
(* Specifications:                                                         *)
(*   Spec       createZipStore on lists of up to MaxFiles entries, the     *)
(*              loop one iteration per step, the buffers held in the state *)
(*   SpecPath   the same on one entry, for every path up to MaxPathLen     *)
(*   SpecSizes  the loop on lists of up to MaxEntries entries, the part    *)
(*              lists held by their length and their total byte lengths    *)
(*   SpecCall   createZipStore as one step on entries whose name is up to  *)
(*              MaxLongName bytes and more, the result held as what a      *)
(*              reader extracts from it                                    *)
(***************************************************************************)
EXTENDS Integers, Sequences, FiniteSets, TLC

(***************************************************************************)
(* Bounds of the explored input space.                                     *)
(***************************************************************************)
MaxFiles == 3
MaxPathLen == 3
MaxDataLen == 1
MaxEntries == 65536
MaxLongName == 65536
MaxCrcLen == 2
MaxCalls == 2
MaxCallFiles == 2
MaxFrames == 2
MaxMounts == 3
MaxAttempts == 2
MaxRateRequests == 6
MaxTicks == 2

(***************************************************************************)
(* 32-bit arithmetic as JavaScript's bit operators compute it.  A number   *)
(* is held as [hi, lo], its value being hi * 65536 + lo with lo in         *)
(* 0..65535, because the model checker's integers end at 2^31 - 1.  The    *)
(* operators ^ and & return a signed 32-bit number (hi in -32768..32767),  *)
(* >>> an unsigned one (hi in 0..65535).                                   *)
(***************************************************************************)
\* F(v), with v computed once, as the value of a JavaScript expression is before it
\* is bound to a const or passed as an argument.
Once(v, F(_)) == CHOOSE r \in {F(x) : x \in {v}} : TRUE

Pow2(k) == 2 ^ k

\* ToUint32 of a number: what every bit operator first makes of its operand.
ToUint32(n) == Once(n, LAMBDA m : [hi |-> (m \div 65536) % 65536, lo |-> m % 65536])

RECURSIVE XorBits(_, _, _)
XorBits(a, b, k) ==
    IF k = 0 THEN 0
    ELSE ((a + b) % 2) + 2 * XorBits(a \div 2, b \div 2, k - 1)

\* The 32 bits of a number as an unsigned value, and as a signed one.
AsUint32(w) == [hi |-> w.hi % 65536, lo |-> w.lo]
AsInt32(w) ==
    Once(w, LAMBDA v :
        [hi |-> IF v.hi % 65536 >= 32768 THEN (v.hi % 65536) - 65536 ELSE v.hi % 65536,
         lo |-> v.lo])

\* a ^ b
Xor32(a, b) ==
    Once(a, LAMBDA x : Once(b, LAMBDA y :
        AsInt32([hi |-> XorBits(x.hi % 65536, y.hi % 65536, 16),
                 lo |-> XorBits(x.lo, y.lo, 16)])))

\* w >>> k, for 0 <= k <= 16
Shr(w, k) ==
    Once(AsUint32(w), LAMBDA u :
        [hi |-> u.hi \div Pow2(k),
         lo |-> (u.lo \div Pow2(k)) + (u.hi % Pow2(k)) * Pow2(16 - k)])

\* w & 0xff
LowByte(w) == w.lo % 256

\* Uint8Array.of(n & 0xff, (n >>> 8) & 0xff), n a number
u16le(n) == Once(ToUint32(n), LAMBDA w : << LowByte(w), LowByte(Shr(w, 8)) >>)

\* Uint8Array.of(n & 0xff, (n >>> 8) & 0xff, (n >>> 16) & 0xff, (n >>> 24) & 0xff),
\* n given as a 32-bit value
u32leWord(w) ==
    Once(w, LAMBDA v : << LowByte(v), LowByte(Shr(v, 8)),
                          LowByte(Shr(v, 16)), LowByte(Shr(Shr(v, 16), 8)) >>)

\* the same, n a number
u32le(n) == u32leWord(ToUint32(n))

RECURSIVE concat(_)
concat(chunks) ==
    Once(chunks, LAMBDA c : IF c = << >> THEN << >> ELSE Head(c) \o concat(Tail(c)))

(***************************************************************************)
(* CRC32 (IEEE), table driven.                                             *)
(***************************************************************************)
\* 0xedb88320
CrcPolynomial == [hi |-> 60856, lo |-> 33568]

\* 0xffffffff
AllOnes == [hi |-> 65535, lo |-> 65535]

\* c = (c & 1) ? (0xedb88320 ^ (c >>> 1)) : (c >>> 1), k times
RECURSIVE CrcTableEntry(_, _)
CrcTableEntry(c, k) ==
    IF k = 0 THEN c
    ELSE Once(IF c.lo % 2 = 1 THEN Xor32(CrcPolynomial, Shr(c, 1)) ELSE Shr(c, 1),
              LAMBDA d : CrcTableEntry(d, k - 1))

\* table[i] = c >>> 0
CRC_TABLE == [n \in 0..255 |-> Shr(CrcTableEntry(ToUint32(n), 8), 0)]

\* The module's CRC_TABLE: a Uint32Array built when the module is loaded, which every
\* call of crc32 reads and which lives as long as the module.
VARIABLE crcTable

\* The state after the module is loaded.
ModuleLoaded == crcTable = CRC_TABLE

\* crc = CRC_TABLE[(crc ^ data[i]) & 0xff] ^ (crc >>> 8)
CrcStep(crc, byte) == Xor32(crcTable[LowByte(Xor32(crc, ToUint32(byte)))], Shr(crc, 8))

\* The loop over data[lo..hi], by halves so that long data stays within the stack: the
\* value of crc after the first half enters the second.
RECURSIVE CrcLoop(_, _, _, _)
CrcLoop(crc, data, lo, hi) ==
    IF lo > hi THEN crc
    ELSE IF lo = hi THEN CrcStep(crc, data[lo])
    ELSE Once(CrcLoop(crc, data, lo, (lo + hi) \div 2), LAMBDA c :
            CrcLoop(c, data, ((lo + hi) \div 2) + 1, hi))

\* The checksum returned without the final >>> 0.
crc32_Signed(data) == Once(data, LAMBDA bytes : Xor32(CrcLoop(AllOnes, bytes, 1, Len(bytes)), AllOnes))

\* return (crc ^ 0xffffffff) >>> 0
crc32(data) ==
    Once(data, LAMBDA bytes : Shr(Xor32(CrcLoop(AllOnes, bytes, 1, Len(bytes)), AllOnes), 0))

(***************************************************************************)
(* TextEncoder.encode: UTF-8 of a sequence of UTF-16 code units.           *)
(***************************************************************************)
IsHighSurrogate(c) == c >= 55296 /\ c <= 56319
IsLowSurrogate(c) == c >= 56320 /\ c <= 57343

Utf8OfCodePoint(cp) ==
    IF cp < 128 THEN << cp >>
    ELSE IF cp < 2048 THEN << 192 + (cp \div 64), 128 + (cp % 64) >>
    ELSE IF cp < 65536
         THEN << 224 + (cp \div 4096), 128 + ((cp \div 64) % 64), 128 + (cp % 64) >>
    ELSE << 240 + (cp \div 262144), 128 + ((cp \div 4096) % 64),
            128 + ((cp \div 64) % 64), 128 + (cp % 64) >>

\* The bytes the code unit at position k contributes: a surrogate pair is encoded at
\* its first unit, a surrogate without its partner becomes U+FFFD.
EncodeAt(s, k) ==
    IF IsHighSurrogate(s[k])
    THEN IF k < Len(s) /\ IsLowSurrogate(s[k + 1])
         THEN Utf8OfCodePoint(65536 + (s[k] - 55296) * 1024 + (s[k + 1] - 56320))
         ELSE Utf8OfCodePoint(65533)
    ELSE IF IsLowSurrogate(s[k])
    THEN IF k > 1 /\ IsHighSurrogate(s[k - 1]) THEN << >> ELSE Utf8OfCodePoint(65533)
    ELSE Utf8OfCodePoint(s[k])

\* The encoding of s[lo..hi], by halves so that long strings stay within the stack.
RECURSIVE EncodeRange(_, _, _)
EncodeRange(s, lo, hi) ==
    IF lo > hi THEN << >>
    ELSE IF lo = hi THEN EncodeAt(s, lo)
    ELSE EncodeRange(s, lo, (lo + hi) \div 2) \o EncodeRange(s, ((lo + hi) \div 2) + 1, hi)

TextEncode(s) == Once(s, LAMBDA units : EncodeRange(units, 1, Len(units)))

\* A ZipFileInput's data is a string or a Uint8Array: [str |-> BOOLEAN, v |-> sequence].
toBytes(data) == IF data.str THEN TextEncode(data.v) ELSE data.v

\* toBytes applied to a path, which is always a string.
NameBytes(path) == TextEncode(path)

(***************************************************************************)
(* normalizePath                                                           *)
(***************************************************************************)
Slash == 47
Backslash == 92
Dot == 46

\* The replacement without the g flag: the first backslash only.
ReplaceBackslashes_FirstOnly(p) ==
    << >> \o [k \in 1..Len(p) |->
        IF p[k] = Backslash /\ \A j \in 1..(k - 1) : p[j] # Backslash THEN Slash ELSE p[k]]

\* p.replace(/\\/g, "/")
ReplaceBackslashes(p) ==
    Once(p, LAMBDA t : << >> \o [k \in 1..Len(t) |-> IF t[k] = Backslash THEN Slash ELSE t[k]])

\* s.replace(/^\/+/, "")
RECURSIVE StripLeadingSlashes(_)
StripLeadingSlashes(s) ==
    Once(s, LAMBDA t : IF t # << >> /\ t[1] = Slash THEN StripLeadingSlashes(Tail(t)) ELSE t)

\* s.split("/") : always at least one segment, possibly empty.  The segments of
\* s[lo..hi], by halves: the last segment of the left half continues in the right half.
RECURSIVE SplitRange(_, _, _)
SplitRange(s, lo, hi) ==
    IF lo > hi THEN << << >> >>
    ELSE IF lo = hi THEN (IF s[lo] = Slash THEN << << >>, << >> >> ELSE << << s[lo] >> >>)
    ELSE Once(SplitRange(s, lo, (lo + hi) \div 2), LAMBDA left :
         Once(SplitRange(s, ((lo + hi) \div 2) + 1, hi), LAMBDA right :
            SubSeq(left, 1, Len(left) - 1)
              \o << left[Len(left)] \o right[1] >>
              \o Tail(right)))

Split(s) == Once(s, LAMBDA t : SplitRange(t, 1, Len(t)))

\* The filter without its test for "..".
KeepSegment_DotDotKept(seg) == seg # << >> /\ seg # << Dot >>

\* (seg) => seg && seg !== "." && seg !== ".."
KeepSegment(seg) == seg # << >> /\ seg # << Dot >> /\ seg # << Dot, Dot >>

FilterSegments(segs) == SelectSeq(segs, KeepSegment)

\* The segments joined without a separator.
RECURSIVE Join_NoSeparator(_)
Join_NoSeparator(segs) ==
    Once(segs, LAMBDA l : IF l = << >> THEN << >> ELSE l[1] \o Join_NoSeparator(Tail(l)))

\* segs.join("/")
RECURSIVE Join(_)
Join(segs) ==
    Once(segs, LAMBDA l :
        IF l = << >> THEN << >>
        ELSE IF Len(l) = 1 THEN l[1]
        ELSE l[1] \o << Slash >> \o Join(Tail(l)))

\* A path with a ".." segment normalized to nothing, so that its entry is dropped.
normalizePath_TraversalDropped(p) ==
    Once(Split(StripLeadingSlashes(ReplaceBackslashes(p))), LAMBDA segs :
        IF \E k \in 1..Len(segs) : segs[k] = << Dot, Dot >>
        THEN << >>
        ELSE Join(FilterSegments(segs)))

normalizePath(p) == Join(FilterSegments(Split(StripLeadingSlashes(ReplaceBackslashes(p)))))

(***************************************************************************)
(* createZipStore: records                                                 *)
(***************************************************************************)
\* Local file header, 30 bytes.
localHeader(crc, compSize, uncompSize, nameLen) ==
    concat(<< u32le(67324752),      \* 0x04034b50
              u16le(20), u16le(0), u16le(0), u16le(0), u16le(0),
              u32leWord(crc), u32le(compSize), u32le(uncompSize),
              u16le(nameLen), u16le(0) >>)

\* The central header with a checksum field left at zero.
centralHeader_CrcZero(crc, compSize, uncompSize, nameLen, off) ==
    concat(<< u32le(33639248),
              u16le(788),
              u16le(20), u16le(0), u16le(0), u16le(0), u16le(0),
              u32le(0), u32le(compSize), u32le(uncompSize),
              u16le(nameLen), u16le(0), u16le(0), u16le(0), u16le(0),
              u32le(0), u32le(off) >>)

\* Central directory header, 46 bytes.
centralHeader(crc, compSize, uncompSize, nameLen, off) ==
    concat(<< u32le(33639248),      \* 0x02014b50
              u16le(788),           \* 0x0314 "made by"
              u16le(20), u16le(0), u16le(0), u16le(0), u16le(0),
              u32leWord(crc), u32le(compSize), u32le(uncompSize),
              u16le(nameLen), u16le(0), u16le(0), u16le(0), u16le(0),
              u32le(0), u32le(off) >>)

\* The end record with the size and the offset of the central directory exchanged.
eocd_Swapped(entries, centralSize, centralOffset) ==
    concat(<< u32le(101010256),
              u16le(0), u16le(0), u16le(entries), u16le(entries),
              u32le(centralOffset), u32le(centralSize), u16le(0) >>)

\* The end record without its last field, the comment length.
eocd_NoCommentLength(entries, centralSize, centralOffset) ==
    concat(<< u32le(101010256),
              u16le(0), u16le(0), u16le(entries), u16le(entries),
              u32le(centralSize), u32le(centralOffset) >>)

\* End of central directory, 22 bytes.
eocd(entries, centralSize, centralOffset) ==
    concat(<< u32le(101010256),     \* 0x06054b50
              u16le(0), u16le(0), u16le(entries), u16le(entries),
              u32le(centralSize), u32le(centralOffset), u16le(0) >>)

\* The local record with the content in front of the name.
LocalRecord_DataBeforeName(nameBytes, dataBytes) ==
    Once(nameBytes, LAMBDA name : Once(dataBytes, LAMBDA data :
        concat(<< localHeader(crc32(data), Len(data), Len(data), Len(name)),
                  data, name >>)))

\* const localRecord = concat([localHeader, nameBytes, dataBytes])
LocalRecord(nameBytes, dataBytes) ==
    Once(nameBytes, LAMBDA name : Once(dataBytes, LAMBDA data :
        concat(<< localHeader(crc32(data), Len(data), Len(data), Len(name)),
                  name, data >>)))

\* The central record with the length of the name in the uncompressed-size field.
CentralRecord_SizeOfName(nameBytes, dataBytes, off) ==
    Once(nameBytes, LAMBDA name : Once(dataBytes, LAMBDA data :
        concat(<< centralHeader(crc32(data), Len(data), Len(name), Len(name), off),
                  name >>)))

\* const centralRecord = concat([centralHeader, nameBytes])
CentralRecord(nameBytes, dataBytes, off) ==
    Once(nameBytes, LAMBDA name : Once(dataBytes, LAMBDA data :
        concat(<< centralHeader(crc32(data), Len(data), Len(data), Len(name), off),
                  name >>)))

\* The loop without its test of the normalized path.
DropsEntry_Never(path) == FALSE

\* if (!path) continue;
DropsEntry(path) == path = << >>

\* The running offset set to the last record's length instead of advanced by it.
NextOffset_Assigned(off, localRecord) == Len(localRecord)

\* offset += localRecord.byteLength
NextOffset(off, localRecord) == off + Len(localRecord)

\* The state of the for-of loop: the two part lists and the running offset.
LoopStart == [localParts |-> << >>, centralParts |-> << >>, offset |-> 0]

\* One iteration of the loop over files, for the entry f.
LoopBody(st, f) ==
    Once(normalizePath(f.path), LAMBDA path :
    IF DropsEntry(path) THEN st
    ELSE Once(NameBytes(path), LAMBDA nameBytes :
         Once(toBytes(f.data), LAMBDA dataBytes :
         Once(LocalRecord(nameBytes, dataBytes), LAMBDA localRecord :
         Once(CentralRecord(nameBytes, dataBytes, st.offset), LAMBDA centralRecord :
            [localParts |-> Append(st.localParts, localRecord),
             centralParts |-> Append(st.centralParts, centralRecord),
             offset |-> NextOffset(st.offset, localRecord)])))))

\* The central directory put in front of the local records.
Layout_CentralFirst(localBlob, centralBlob, endRecord) ==
    concat(<< centralBlob, localBlob, endRecord >>)

\* The buffer returned without the end record.
Layout_NoEndRecord(localBlob, centralBlob, endRecord) == concat(<< localBlob, centralBlob >>)

\* return concat([localBlob, centralBlob, eocd])
Layout(localBlob, centralBlob, endRecord) == concat(<< localBlob, centralBlob, endRecord >>)

\* The code after the loop: both blobs, the end record, the returned buffer.
Assemble(st) ==
    Once(concat(st.localParts), LAMBDA localBlob :
    Once(concat(st.centralParts), LAMBDA centralBlob :
        LET centralOffset == Len(localBlob)
            centralSize == Len(centralBlob)
            entries == Len(st.centralParts)
        IN Layout(localBlob, centralBlob, eocd(entries, centralSize, centralOffset))))

\* The loop over the entries fs, from the state st on.
RECURSIVE RunLoop(_, _)
RunLoop(st, fs) ==
    Once(st, LAMBDA s : Once(fs, LAMBDA l :
        IF l = << >> THEN s ELSE RunLoop(LoopBody(s, Head(l)), Tail(l))))

\* The function as a whole: entries -> bytes.
createZipStore(fs) == Once(RunLoop(LoopStart, fs), LAMBDA st : Assemble(st))

(***************************************************************************)
(* Inputs                                                                  *)
(***************************************************************************)
\* Code units paths are built from: "/", "\", ".", "a", and U+00E9 (two UTF-8 bytes).
PathChars == {Slash, Backslash, Dot, 97, 233}

RECURSIVE SeqsUpTo(_, _)
SeqsUpTo(S, n) ==
    IF n = 0 THEN {<< >>}
    ELSE LET shorter == SeqsUpTo(S, n - 1)
         IN shorter \cup {Append(s, c) : s \in {t \in shorter : Len(t) = n - 1}, c \in S}

\* The paths of the scenarios.
PathSecret == << 46, 46, 47, 46, 46, 47, 115, 101, 99, 114, 101, 116 >>      \* "../../secret"
PathABC == << 47, 97, 47, 46, 47, 98, 47, 46, 46, 47, 99, 46, 116, 120, 116 >> \* "/a/./b/../c.txt"
PathEvil == << 46, 46, 92, 46, 46, 92, 101, 118, 105, 108, 46, 116, 120, 116 >> \* "..\..\evil.txt"
PathATxt == << 97, 46, 116, 120, 116 >>                                       \* "a.txt"
PathDirB == << 100, 105, 114, 47, 98, 46, 116, 120, 116 >>                    \* "dir/b.txt"

ScenarioPaths == {PathSecret, PathABC, PathEvil, PathATxt, PathDirB}

StrData(s) == [str |-> TRUE, v |-> s]
ByteData(b) == [str |-> FALSE, v |-> b]

DataX == StrData(<< 120 >>)           \* "x"
DataHi == StrData(<< 104, 105 >>)     \* "hi"
DataYo == StrData(<< 121, 111 >>)     \* "yo"

\* Contents: byte arrays up to MaxDataLen, and strings (one of them not ASCII).
DataBytes == {0, 255}
Datas == {ByteData(b) : b \in SeqsUpTo(DataBytes, MaxDataLen)}
         \cup {DataX, DataHi, DataYo, StrData(<< 233 >>)}

Entry(p, d) == [path |-> p, data |-> d]

\* Every path up to MaxPathLen code units, and the scenarios' paths.
AllPaths == ScenarioPaths \cup SeqsUpTo(PathChars, MaxPathLen)

\* The entries archives are built from: the scenarios' entries, entries whose path
\* normalizes to nothing, an entry whose name and content are not ASCII, empty content.
ZipEntries ==
    { Entry(PathATxt, DataHi),
      Entry(PathDirB, DataYo),
      Entry(PathSecret, DataX),
      Entry(PathEvil, ByteData(<< 0, 255 >>)),
      Entry(PathABC, StrData(<< >>)),
      Entry(<< Dot, Dot >>, DataX),
      Entry(<< >>, DataHi),
      Entry(<< Slash, Dot, Backslash >>, ByteData(<< 255 >>)),
      Entry(<< 233 >>, StrData(<< 233 >>)),
      Entry(<< 97 >>, ByteData(<< >>)) }

RECURSIVE ListsUpTo(_, _)
ListsUpTo(S, n) ==
    IF n = 0 THEN {<< >>}
    ELSE LET shorter == ListsUpTo(S, n - 1)
         IN shorter \cup {<< e >> \o l : e \in S, l \in {t \in shorter : Len(t) = n - 1}}

(***************************************************************************)
(* State                                                                   *)
(***************************************************************************)
VARIABLES
    files,          \* the argument of createZipStore
    i,              \* position of the for-of iterator (next index, 1-based)
    localParts,
    centralParts,
    offset,
    pc,             \* "loop" while iterating, "done" once the buffer is returned
    out,            \* the returned buffer
    entries,        \* size view: centralParts.length
    centralSize,    \* size view: total byte length of centralParts
    endRecord,      \* size view: the end record
    call,           \* call view: the argument, long paths held by their length
    extracted,      \* call view: what a reader extracts from the returned buffer
    crcIn,          \* crc32 alone: its argument
    crcOut,         \* crc32 alone: the number it returns
    history,        \* the calls of createZipStore that returned: argument and buffer
    handler,        \* the source file that serves POST /api/generate
    secretSet,      \* process.env.TURNSTILE_SECRET_KEY is set
    template,       \* the bot-template directory, listed in the order it is walked
    envExample,     \* the text of bot-template/.env.example
    now,            \* Date.now(), in milliseconds
    rateLimitHits,  \* the module's Map from client IP to the times of its hits
    requests,       \* the POST requests: what was sent, where the handler is, the response
    invocations,    \* calls of createZipStore in progress side by side: their locals
    callers,        \* the entry lists as the callers of those calls hold them
    siteKey,        \* Turnstile: the siteKey prop
    mounted,        \* Turnstile: the component is mounted
    scriptTag,      \* Turnstile: the script element is in document.head
    turnstile,      \* Turnstile: window.turnstile.render exists
    effects,        \* Turnstile: the runs of the rendering effect, one per mount
    widgetIdRef,    \* Turnstile: widgetIdRef.current
    state,          \* SetupWizard: the state held by React
    isDownloading,  \* SetupWizard: isDownloading, as held by React
    error,          \* SetupWizard: error, as held by React
    view,           \* SetupWizard: the state the committed render and its closures see
    attempts,       \* SetupWizard: the calls of onDownload
    posts           \* SetupWizard: the bodies sent to /api/generate

\* The variables of crc32 called alone.
crcVars == << crcIn, crcOut >>

\* The variables beyond those of one call of createZipStore.
\* The variables of the request handler.
postVars == << handler, secretSet, template, envExample, now, rateLimitHits, requests >>

\* The variables of calls of createZipStore running side by side.
frameVars == << invocations, callers >>

\* The variables of the Turnstile component and of the wizard.
uiVars == << siteKey, mounted, scriptTag, turnstile, effects, widgetIdRef,
             state, isDownloading, error, view, attempts, posts >>

restVars == << frameVars, uiVars >>

otherVars == << crcVars, crcTable, history, postVars, restVars >>

vars == << files, i, localParts, centralParts, offset, pc, out,
           entries, centralSize, endRecord, call, extracted, otherVars >>

\* The variables of createZipStore, pc apart.
zipVars == << files, i, localParts, centralParts, offset, out,
              entries, centralSize, endRecord, call, extracted >>

\* createZipStore is not called.
NoZipView ==
    /\ files = << >>
    /\ i = 1
    /\ localParts = << >>
    /\ centralParts = << >>
    /\ offset = 0
    /\ out = << >>
    /\ entries = 0
    /\ centralSize = 0
    /\ endRecord = << >>
    /\ call = << >>
    /\ extracted = << >>

\* crc32 is not called alone.
NoCrcView == crcIn = << >> /\ crcOut = << >>

\* No call of createZipStore has returned yet.
NoHistory == history = << >>

\* undefined, and a file or directory that does not exist: a sequence that is no string.
Absent == << -1 >>

\* No request handler is running.
NoPostView ==
    /\ handler = "none"
    /\ secretSet = FALSE
    /\ template = Absent
    /\ envExample = Absent
    /\ now = 0
    /\ rateLimitHits = << >>
    /\ requests = << >>

\* No calls run side by side.
NoFrameView == invocations = << >> /\ callers = << >>

\* The page is not open.
NoUiView ==
    /\ siteKey = << >>
    /\ mounted = FALSE
    /\ scriptTag = FALSE
    /\ turnstile = FALSE
    /\ effects = << >>
    /\ widgetIdRef = Absent
    /\ state = Absent
    /\ isDownloading = FALSE
    /\ error = Absent
    /\ view = Absent
    /\ attempts = << >>
    /\ posts = << >>

NoOtherView ==
    NoCrcView /\ ModuleLoaded /\ NoHistory /\ NoPostView /\ NoFrameView /\ NoUiView

\* The size view is not used while the buffers themselves are modelled.
NoSizeView == entries = 0 /\ centralSize = 0 /\ endRecord = << >>

\* Nor is the call view.
NoCallView == call = << >> /\ extracted = << >>

Called(fs) ==
    /\ files = fs
    /\ i = 1
    /\ localParts = << >>
    /\ centralParts = << >>
    /\ offset = 0
    /\ pc = "loop"
    /\ out = << >>
    /\ NoSizeView
    /\ NoCallView
    /\ NoOtherView

\* for (const f of files) { ... }
ForOf ==
    /\ pc = "loop"
    /\ i <= Len(files)
    /\ \E st \in { LoopBody([localParts |-> localParts, centralParts |-> centralParts,
                             offset |-> offset], files[i]) } :
          /\ localParts' = st.localParts
          /\ centralParts' = st.centralParts
          /\ offset' = st.offset
    /\ i' = i + 1
    /\ UNCHANGED << files, pc, out, entries, centralSize, endRecord, call, extracted >>
    /\ UNCHANGED otherVars

\* the code after the loop, and the return
Return ==
    /\ pc = "loop"
    /\ i > Len(files)
    /\ out' = Assemble([localParts |-> localParts, centralParts |-> centralParts,
                        offset |-> offset])
    /\ pc' = "done"
    /\ UNCHANGED << files, i, localParts, centralParts, offset,
                    entries, centralSize, endRecord, call, extracted >>
    /\ UNCHANGED otherVars

Next == ForOf \/ Return

\* createZipStore called on a list of up to MaxFiles entries.
Init == \E fs \in ListsUpTo(ZipEntries, MaxFiles) : Called(fs)

Spec == Init /\ [][Next]_vars

\* createZipStore called on one entry, of any path and any content.
InitPath == \E p \in AllPaths, d \in Datas : Called(<< Entry(p, d) >>)

SpecPath == InitPath /\ [][Next]_vars

\* createZipStore is synchronous: once called it runs until it returns.
FairSpec == Init /\ [][Next]_vars /\ WF_vars(Next)

(***************************************************************************)
(* The size view of createZipStore, for lists too long to hold as buffers: *)
(* the same loop with the two part lists held by what the code after the   *)
(* loop reads from them, their common length (entries) and their total     *)
(* byte lengths (offset for localParts, centralSize for centralParts).     *)
(* The entries of the list are drawn one at a time.                        *)
(***************************************************************************)
SizeEntries == { Entry(<< 97 >>, ByteData(<< >>)), Entry(<< Dot, Dot >>, DataX) }

InitSizes ==
    /\ files = << >>
    /\ i = 1
    /\ localParts = << >>
    /\ centralParts = << >>
    /\ offset = 0
    /\ pc = "loop"
    /\ out = << >>
    /\ entries = 0
    /\ centralSize = 0
    /\ endRecord = << >>
    /\ NoCallView
    /\ NoOtherView

\* one iteration of the loop, for one more entry of the list
SizeForOf ==
    /\ pc = "loop"
    /\ entries < MaxEntries
    /\ \E f \in SizeEntries :
          LET path == normalizePath(f.path)
              nameBytes == NameBytes(path)
              dataBytes == toBytes(f.data)
          IN IF DropsEntry(path)
             THEN UNCHANGED << entries, centralSize, offset >>
             ELSE /\ entries' = entries + 1
                  /\ centralSize' = centralSize + Len(CentralRecord(nameBytes, dataBytes, offset))
                  /\ offset' = NextOffset(offset, LocalRecord(nameBytes, dataBytes))
    /\ UNCHANGED << files, i, localParts, centralParts, pc, out, endRecord, call, extracted >>
    /\ UNCHANGED otherVars

\* the end record built after the loop
SizeReturn ==
    /\ pc = "loop"
    /\ endRecord' = eocd(entries, centralSize, offset)
    /\ pc' = "done"
    /\ UNCHANGED << files, i, localParts, centralParts, offset, out,
                    entries, centralSize, call, extracted >>
    /\ UNCHANGED otherVars

NextSizes == SizeForOf \/ SizeReturn

SpecSizes == InitSizes /\ [][NextSizes]_vars

(***************************************************************************)
(* Reading an archive back, as an unzip tool does: the end record is the   *)
(* last 22 bytes, it locates the central directory, each central record    *)
(* locates its local record.  Positions are 0-based byte offsets.          *)
(***************************************************************************)
ByteAt(buf, pos) == IF pos >= 0 /\ pos < Len(buf) THEN buf[pos + 1] ELSE 0

\* The n bytes at pos; what lies beyond the end of the buffer cannot be read.
Slice(buf, pos, n) ==
    LET first == IF pos < 0 THEN 1 ELSE pos + 1
        last == IF pos + n > Len(buf) THEN Len(buf) ELSE pos + n
    IN IF first > last THEN << >> ELSE SubSeq(buf, first, last)

U16At(buf, pos) == ByteAt(buf, pos) + 256 * ByteAt(buf, pos + 1)

\* 32-bit fields that hold a size or an offset (below 2^31 in every archive explored)
U32At(buf, pos) == U16At(buf, pos) + 65536 * U16At(buf, pos + 2)

RECURSIVE SumLen(_, _)
SumLen(parts, n) == IF n = 0 THEN 0 ELSE SumLen(parts, n - 1) + Len(parts[n])

EndPos(buf) == Len(buf) - 22
EndSignatureOk(buf) == Len(buf) >= 22 /\ Slice(buf, EndPos(buf), 4) = << 80, 75, 5, 6 >>
EndEntriesOnDisk(buf) == U16At(buf, EndPos(buf) + 8)
EndTotalEntries(buf) == U16At(buf, EndPos(buf) + 10)
EndCentralSize(buf) == U32At(buf, EndPos(buf) + 12)
EndCentralOffset(buf) == U32At(buf, EndPos(buf) + 16)

\* The central record at pos.
CentralAt(buf, pos) ==
    LET nameLen == U16At(buf, pos + 28) IN
    [ at |-> pos,
      sigOk |-> pos + 46 <= Len(buf) /\ Slice(buf, pos, 4) = << 80, 75, 1, 2 >>,
      method |-> U16At(buf, pos + 10),
      crc |-> Slice(buf, pos + 16, 4),
      compSize |-> U32At(buf, pos + 20),
      uncompSize |-> U32At(buf, pos + 24),
      nameLen |-> nameLen,
      localOffset |-> U32At(buf, pos + 42),
      name |-> Slice(buf, pos + 46, nameLen),
      next |-> pos + 46 + nameLen + U16At(buf, pos + 30) + U16At(buf, pos + 32) ]

\* The first n central records, read one after the other from pos.
RECURSIVE CentralFrom(_, _, _)
CentralFrom(buf, pos, n) ==
    IF n = 0 THEN << >>
    ELSE LET c == CentralAt(buf, pos) IN << c >> \o CentralFrom(buf, c.next, n - 1)

\* The local record at pos, its content read with the given size.
LocalAt(buf, pos, size) ==
    LET nameLen == U16At(buf, pos + 26)
        dataPos == pos + 30 + nameLen + U16At(buf, pos + 28)
    IN [ at |-> pos,
         sigOk |-> pos + 30 <= Len(buf) /\ Slice(buf, pos, 4) = << 80, 75, 3, 4 >>,
         method |-> U16At(buf, pos + 8),
         crc |-> Slice(buf, pos + 14, 4),
         compSize |-> U32At(buf, pos + 18),
         uncompSize |-> U32At(buf, pos + 22),
         nameLen |-> nameLen,
         name |-> Slice(buf, pos + 30, nameLen),
         data |-> Slice(buf, dataPos, size),
         end |-> dataPos + size ]

\* The entries of the input list that are written: those with a non-empty normalized path.
IsSurvivor(f) == normalizePath(f.path) # << >>
Survivors(fs) == SelectSeq(fs, IsSurvivor)

Returned == pc = "done"

(***************************************************************************)
(* C1  Offset law: in the returned archive, the 'relative offset of local  *)
(* header' field of the central record of the i-th surviving entry equals  *)
(* the sum of the byte lengths of the local records before it.             *)
(***************************************************************************)
C1_OffsetLaw ==
    Returned =>
        LET sv == Survivors(files)
            n == Len(sv)
        IN /\ Len(localParts) = n
           /\ Len(centralParts) = n
           /\ \A k \in 1..n :
                LET before == SumLen(localParts, k - 1)
                    pos == SumLen(localParts, n) + SumLen(centralParts, k - 1)
                IN \* the k-th local record is the one of the k-th surviving entry
                   /\ localParts[k] = LocalRecord(NameBytes(normalizePath(sv[k].path)),
                                                  toBytes(sv[k].data))
                   /\ Slice(out, before, Len(localParts[k])) = localParts[k]
                   \* the k-th central record, where it lies in the buffer
                   /\ Slice(out, pos, Len(centralParts[k])) = centralParts[k]
                   /\ Slice(out, pos, 4) = << 80, 75, 1, 2 >>
                   /\ U32At(out, pos + 42) = before

\* Three entries written, the third one's offset being the sum of two record lengths.
C1_Witness ==
    /\ Returned
    /\ Len(localParts) = 3
    /\ CentralFrom(out, EndCentralOffset(out), 3)[3].localOffset
         = Len(localParts[1]) + Len(localParts[2])
    /\ Len(localParts[1]) # Len(localParts[2])

(***************************************************************************)
(* C2  Summary law: the end record's central-directory offset is the total *)
(* length of the local records, its central-directory size the total       *)
(* length of the central records, and the buffer is those two plus 22.     *)
(***************************************************************************)
C2_SummaryLaw ==
    Returned =>
        /\ EndSignatureOk(out)
        /\ EndCentralOffset(out) = SumLen(localParts, Len(localParts))
        /\ EndCentralSize(out) = SumLen(centralParts, Len(centralParts))
        /\ Len(out) = SumLen(localParts, Len(localParts))
                        + SumLen(centralParts, Len(centralParts)) + 22

\* An archive of two written entries and one dropped, the two totals different.
C2_Witness ==
    /\ Returned
    /\ Len(files) = 3
    /\ Len(localParts) = 2
    /\ EndCentralOffset(out) > 0
    /\ EndCentralSize(out) > 0
    /\ EndCentralOffset(out) # EndCentralSize(out)

(***************************************************************************)
(* What a reader finds in a returned archive that holds n entries.         *)
(***************************************************************************)
\* The central records, in directory order.
Central(buf, n) == CentralFrom(buf, EndCentralOffset(buf), n)

\* The local record each central record points at, read with the central record's size.
Locals(buf, n) ==
    LET cd == Central(buf, n)
    IN [k \in 1..n |-> LocalAt(buf, cd[k].localOffset, cd[k].compSize)]

\* Every name of the archive, local records first.
WrittenNames(buf, n) ==
    [k \in 1..n |-> Locals(buf, n)[k].name] \o [k \in 1..n |-> Central(buf, n)[k].name]

(***************************************************************************)
(* C3  Every file name written into the archive, in a local or a central   *)
(* record, is normalized: no backslash, no leading '/', and no segment     *)
(* between '/' that is empty, "." or "..".                                 *)
(***************************************************************************)
\* name[a..b] is a whole segment of the name
IsSegment(name, a, b) ==
    /\ a <= b
    /\ a = 1 \/ name[a - 1] = 47
    /\ b = Len(name) \/ name[b + 1] = 47
    /\ \A k \in a..b : name[k] # 47

NormalizedName(name) ==
    /\ name # << >>
    /\ \A k \in 1..Len(name) : name[k] # 92
    /\ name[1] # 47
    /\ name[Len(name)] # 47
    /\ \A k \in 1..(Len(name) - 1) : ~(name[k] = 47 /\ name[k + 1] = 47)
    /\ \A a \in 1..Len(name), b \in 1..Len(name) :
          IsSegment(name, a, b) =>
             /\ SubSeq(name, a, b) # << 46 >>
             /\ SubSeq(name, a, b) # << 46, 46 >>

C3_NamesNormalized ==
    Returned =>
        LET n == Len(localParts)
            names == WrittenNames(out, n)
        IN /\ n = EndTotalEntries(out)
           /\ Len(names) = 2 * n
           /\ \A k \in 1..Len(names) : NormalizedName(names[k])

\* A name was written for a path that starts with a separator and holds a backslash.
C3_Witness ==
    /\ Returned
    /\ Len(localParts) = 1
    /\ files[1].path[1] \in {Slash, Backslash}
    /\ \E k \in 2..Len(files[1].path) : files[1].path[k] = Backslash
    /\ Len(WrittenNames(out, 1)[1]) < Len(files[1].path)

(***************************************************************************)
(* C4  The entry ("../../secret", "x").                                    *)
(***************************************************************************)
SecretEntry == Entry(PathSecret, DataX)
NotSecretEntry(f) == f # SecretEntry

NameSecret == << 115, 101, 99, 114, 101, 116 >>      \* "secret"

\* The position, among the entries written, of the entry at position k of the input.
RankOf(fs, k) == Len(Survivors(SubSeq(fs, 1, k)))

\* C4 as claimed: the entry ("../../secret", "x") is dropped, so the archive is the
\* one of the remaining entries: no local record and no central record for it.
C4_SecretDropped ==
    Returned =>
        LET others == SelectSeq(files, NotSecretEntry)
        IN others # files => out = createZipStore(others)

\* C4 as the code has it: the entry ("../../secret", "x") normalizes to "secret" and
\* is kept: the archive holds one local and one central record named "secret" with
\* content "x" for it, at its place among the entries written, and every other entry
\* with a non-empty normalized path is present as well.
C4_SecretKept ==
    Returned =>
        LET sv == Survivors(files)
            n == Len(sv)
            cd == Central(out, n)
            ls == Locals(out, n)
        IN /\ EndTotalEntries(out) = n
           /\ \A k \in 1..n : cd[k].name = NameBytes(normalizePath(sv[k].path))
           /\ \A k \in 1..Len(files) :
                 files[k] = SecretEntry =>
                    /\ RankOf(files, k) \in 1..n
                    /\ cd[RankOf(files, k)].sigOk
                    /\ cd[RankOf(files, k)].name = NameSecret
                    /\ ls[RankOf(files, k)].sigOk
                    /\ ls[RankOf(files, k)].name = NameSecret
                    /\ ls[RankOf(files, k)].data = << 120 >>

\* The entry ("../../secret", "x") was passed between two other entries that are written.
C4_Witness ==
    /\ Returned
    /\ Len(files) = 3
    /\ files[2] = SecretEntry
    /\ files[1] # SecretEntry
    /\ files[3] # SecretEntry
    /\ EndTotalEntries(out) = 3

(***************************************************************************)
(* C5  The path "/a/./b/../c.txt".                                         *)
(***************************************************************************)
NameAC == << 97, 47, 99, 46, 116, 120, 116 >>             \* "a/c.txt"
NameABC == << 97, 47, 98, 47, 99, 46, 116, 120, 116 >>    \* "a/b/c.txt"

\* C5 as claimed: normalizePath maps "/a/./b/../c.txt" to "a/c.txt", which is then
\* the name written for an entry of that path.
C5_ResolvesDotDot ==
    (Returned /\ Len(files) = 1 /\ files[1].path = PathABC) =>
        WrittenNames(out, 1) = << NameAC, NameAC >>

\* C5 as the code has it: normalizePath maps "/a/./b/../c.txt" to "a/b/c.txt": the
\* segments "." and ".." are discarded and "b" stays.
C5_DiscardsDotDot ==
    (Returned /\ Len(files) = 1 /\ files[1].path = PathABC) =>
        /\ EndTotalEntries(out) = 1
        /\ WrittenNames(out, 1) = << NameABC, NameABC >>

\* An entry of path "/a/./b/../c.txt" was written.
C5_Witness ==
    /\ Returned
    /\ Len(files) = 1
    /\ files[1].path = PathABC
    /\ Len(localParts) = 1
    /\ Central(out, 1)[1].nameLen = 9

(***************************************************************************)
(* C6  Backslashes are separators: "..\..\evil.txt" is written as          *)
(* "evil.txt", and the archive of a path written with backslashes is the   *)
(* archive of the same path written with forward slashes.                  *)
(***************************************************************************)
NameEvil == << 101, 118, 105, 108, 46, 116, 120, 116 >>   \* "evil.txt"

WithForwardSlashes(p) == [k \in 1..Len(p) |-> IF p[k] = 92 THEN 47 ELSE p[k]]

C6_BackslashIsSeparator ==
    (Returned /\ Len(files) = 1) =>
        /\ files[1].path = PathEvil =>
              /\ EndTotalEntries(out) = 1
              /\ WrittenNames(out, 1) = << NameEvil, NameEvil >>
        /\ out = createZipStore(<< Entry(WithForwardSlashes(files[1].path), files[1].data) >>)

\* A path with a backslash between two segments that are kept.
C6_Witness ==
    /\ Returned
    /\ Len(files) = 1
    /\ Len(localParts) = 1
    /\ \E k \in 1..Len(files[1].path) : files[1].path[k] = Backslash
    /\ \A k \in 1..Len(files[1].path) : files[1].path[k] # Slash
    /\ \E k \in 1..Len(WrittenNames(out, 1)[1]) : WrittenNames(out, 1)[1][k] = 47

(***************************************************************************)
(* C7  An entry whose normalized path is empty is excluded and nothing     *)
(* else: while the loop runs, the part lists hold one record per surviving *)
(* entry passed so far and the running offset is the length of those local *)
(* records, and the returned buffer is byte for byte the one returned for  *)
(* the list without that entry.                                            *)
(***************************************************************************)
RemoveAt(fs, k) == SubSeq(fs, 1, k - 1) \o SubSeq(fs, k + 1, Len(fs))

C7_DroppedEntryLeavesNoTrace ==
    /\ Len(localParts) = RankOf(files, i - 1)
    /\ Len(centralParts) = RankOf(files, i - 1)
    /\ offset = SumLen(localParts, Len(localParts))
    /\ Returned =>
          /\ EndTotalEntries(out) = Len(Survivors(files))
          /\ \A k \in 1..Len(files) :
                ~IsSurvivor(files[k]) => out = createZipStore(RemoveAt(files, k))

\* An entry with an empty normalized path was passed between two entries that are written.
C7_Witness ==
    /\ Returned
    /\ Len(files) = 3
    /\ IsSurvivor(files[1])
    /\ ~IsSurvivor(files[2])
    /\ files[2].path # << >>
    /\ IsSurvivor(files[3])
    /\ EndTotalEntries(out) = 2

(***************************************************************************)
(* C9  Layout: the buffer is the local records in input order, directly    *)
(* followed by the central records in the same order, directly followed by *)
(* the end record; the k-th central record describes the k-th local        *)
(* record, which is the record of the k-th surviving entry.                *)
(***************************************************************************)
\* n local records read one after the other from pos, each with its own size field.
RECURSIVE LocalsFrom(_, _, _)
LocalsFrom(buf, pos, n) ==
    IF n = 0 THEN << >>
    ELSE LET l == LocalAt(buf, pos, U32At(buf, pos + 18))
         IN << l >> \o LocalsFrom(buf, l.end, n - 1)

EndOf(records, start) == IF records = << >> THEN start ELSE records[Len(records)].end

C9_Layout ==
    Returned =>
        LET sv == Survivors(files)
            n == Len(sv)
            ls == LocalsFrom(out, 0, n)
            cdStart == EndOf(ls, 0)
            cd == CentralFrom(out, cdStart, n)
            cdEnd == IF n = 0 THEN cdStart ELSE cd[n].next
        IN /\ out = concat(localParts) \o concat(centralParts) \o Slice(out, EndPos(out), 22)
           /\ cdStart = EndCentralOffset(out)
           /\ cdEnd = EndPos(out)
           /\ EndSignatureOk(out)
           /\ \A k \in 1..n :
                 /\ ls[k].sigOk
                 /\ cd[k].sigOk
                 /\ cd[k].localOffset = ls[k].at
                 /\ cd[k].name = ls[k].name
                 /\ cd[k].compSize = ls[k].compSize
                 /\ cd[k].crc = ls[k].crc
                 /\ ls[k].name = NameBytes(normalizePath(sv[k].path))
                 /\ ls[k].data = toBytes(sv[k].data)

\* Three different entries were written.
C9_Witness ==
    /\ Returned
    /\ Len(localParts) = 3
    /\ localParts[1] # localParts[2]
    /\ localParts[2] # localParts[3]
    /\ localParts[1] # localParts[3]
    /\ Len(out) = SumLen(localParts, 3) + SumLen(centralParts, 3) + 22

(***************************************************************************)
(* C8  Both the 'entries on this disk' and the 'total entries' field of    *)
(* the end record equal the number of surviving entries, which is the      *)
(* number of local records and of central records.                         *)
(***************************************************************************)
C8_EntryCountFields ==
    (pc = "done" /\ endRecord # << >>) =>
        /\ U16At(endRecord, 8) = entries
        /\ U16At(endRecord, 10) = entries

(***************************************************************************)
(* The call view of createZipStore, for paths too long to hold in a state: *)
(* the argument is held with each path as a short prefix and the number of *)
(* times "a" follows it, and of the returned buffer the state keeps what a *)
(* reader extracts from it: the name and the content of each entry, found  *)
(* as an unzip tool finds them (the end record gives the number of entries *)
(* and the place of the central directory, each central record the offset  *)
(* of its local record and the compressed size; the content lies after the *)
(* 30 header bytes and the name, whose length the local header gives).     *)
(***************************************************************************)
RECURSIVE LongName(_)
LongName(n) ==
    IF n = 0 THEN << >>
    ELSE IF n = 1 THEN << 97 >>
    ELSE LongName(n \div 2) \o LongName(n - (n \div 2))

CallEntry(p, n, d) == [path |-> p, fill |-> n, data |-> d]

\* The list of entries a call stands for.
Expand(c) == [k \in 1..Len(c) |-> Entry(c[k].path \o LongName(c[k].fill), c[k].data)]

Extracted(buf) ==
    LET n == EndTotalEntries(buf)
        cd == Central(buf, n)
        ls == Locals(buf, n)
    IN [k \in 1..n |-> [name |-> cd[k].name, data |-> ls[k].data]]

TwoFilesCall == << CallEntry(PathATxt, 0, DataHi), CallEntry(PathDirB, 0, DataYo) >>

Prefixes == {<< >>, << Slash >>, << 233 >>}
Fills == (0..2) \cup ((Pow2(16) - 2)..MaxLongName)
CallDatas == {DataX, DataHi, ByteData(<< >>)}

InitCall ==
    /\ files = << >>
    /\ i = 1
    /\ localParts = << >>
    /\ centralParts = << >>
    /\ offset = 0
    /\ pc = "call"
    /\ out = << >>
    /\ NoSizeView
    /\ NoOtherView
    /\ extracted = << >>
    /\ call \in {TwoFilesCall}
                 \cup {<< CallEntry(p, n, d) >> : p \in Prefixes, n \in Fills, d \in CallDatas}

\* createZipStore applied to the argument, and the returned buffer read back
RoundTrip ==
    /\ pc = "call"
    /\ extracted' = Extracted(createZipStore(Expand(call)))
    /\ pc' = "done"
    /\ UNCHANGED << files, i, localParts, centralParts, offset, out,
                    entries, centralSize, endRecord, call >>
    /\ UNCHANGED otherVars

NextCall == RoundTrip

SpecCall == InitCall /\ [][NextCall]_vars

(***************************************************************************)
(* C10  Round trip: reading the archive as an unzip tool does yields, for  *)
(* every entry written, the bytes of its content; for [("a.txt","hi"),     *)
(* ("dir/b.txt","yo")] it yields exactly these two names and contents.     *)
(***************************************************************************)
C10_RoundTrip ==
    (pc = "done" /\ call # << >>) =>
        LET sv == Survivors(Expand(call))
        IN /\ Len(extracted) = Len(sv)
           /\ \A k \in 1..Len(sv) : extracted[k].data = toBytes(sv[k].data)
           /\ call = TwoFilesCall =>
                 extracted
                   = << [name |-> << 97, 46, 116, 120, 116 >>, data |-> << 104, 105 >>],
                        [name |-> << 100, 105, 114, 47, 98, 46, 116, 120, 116 >>,
                         data |-> << 121, 111 >>] >>

(***************************************************************************)
(* C11  Store: for every surviving entry the compression-method field is 0 *)
(* and the compressed-size and the uncompressed-size field both hold the   *)
(* byte length of the entry's content, in the local record and in the      *)
(* central record.                                                         *)
(***************************************************************************)
C11_StoreSizes ==
    Returned =>
        LET sv == Survivors(files)
            n == Len(sv)
            cd == Central(out, n)
            ls == Locals(out, n)
        IN \A k \in 1..n :
              LET size == Len(toBytes(sv[k].data))
              IN /\ cd[k].sigOk /\ ls[k].sigOk
                 /\ cd[k].method = 0
                 /\ ls[k].method = 0
                 /\ cd[k].compSize = size
                 /\ cd[k].uncompSize = size
                 /\ ls[k].compSize = size
                 /\ ls[k].uncompSize = size

\* Two entries written, one of two content bytes under a longer name, one without content.
C11_Witness ==
    /\ Returned
    /\ Len(localParts) = 2
    /\ Len(toBytes(Survivors(files)[1].data)) = 2
    /\ Central(out, 2)[1].nameLen > 2
    /\ Central(out, 2)[1].uncompSize = 2
    /\ Locals(out, 2)[1].compSize = 2
    /\ Central(out, 2)[2].uncompSize = 0

(***************************************************************************)
(* C12  The empty archive: createZipStore([]) returns exactly 22 bytes,    *)
(* the end record: signature PK 05 06, then the disk numbers, both entry   *)
(* counts, the size and the offset of the central directory and the        *)
(* comment length, all 0.                                                  *)
(***************************************************************************)
C12_EmptyArchive ==
    (Returned /\ files = << >>) =>
        /\ Len(out) = 22
        /\ out = << 80, 75, 5, 6 >> \o [k \in 1..18 |-> 0]
        /\ EndEntriesOnDisk(out) = 0
        /\ EndTotalEntries(out) = 0
        /\ EndCentralSize(out) = 0
        /\ EndCentralOffset(out) = 0
        /\ U16At(out, 20) = 0

\* createZipStore([]) has returned.
C12_Witness ==
    /\ Returned
    /\ files = << >>
    /\ i = 1
    /\ localParts = << >>
    /\ out # << >>

(***************************************************************************)
(* crc32 called alone, on every single byte (each entry of CRC_TABLE is    *)
(* read), on the byte sequences up to MaxCrcLen over CrcBytes, and on the  *)
(* check string "123456789".                                               *)
(***************************************************************************)
CrcBytes == {0, 1, 97, 127, 128, 255}
CheckString == << 49, 50, 51, 52, 53, 54, 55, 56, 57 >>

CrcInputs ==
    SeqsUpTo(CrcBytes, MaxCrcLen) \cup {<< b >> : b \in 0..255} \cup {CheckString}

InitCrc ==
    /\ NoZipView
    /\ pc = "crc32"
    /\ crcIn \in CrcInputs
    /\ crcOut = << >>
    /\ ModuleLoaded
    /\ NoHistory
    /\ NoFrameView
    /\ NoUiView
    /\ NoPostView

\* crc32(data)
Crc32Call ==
    /\ pc = "crc32"
    /\ crcOut' = crc32(crcIn)
    /\ pc' = "crc32 done"
    /\ UNCHANGED << zipVars, crcIn, crcTable, history, postVars, restVars >>

NextCrc == Crc32Call

SpecCrc == InitCrc /\ [][NextCrc]_vars

(***************************************************************************)
(* The reference: CRC-32 computed bit by bit on a register of 32 bits      *)
(* (bit 0 the lowest), reflected, polynomial 0xEDB88320, the register all  *)
(* ones at the start and inverted at the end.                              *)
(***************************************************************************)
BitXor(a, b) == (a + b) % 2

\* 0xEDB88320 = 1110 1101 1011 1000 1000 0011 0010 0000; the register is held as the
\* sequence of its bits, bit k at position k + 1.
PolyBits ==
    << >> \o [k \in 1..32 |->
        IF (k - 1) \in {5, 8, 9, 15, 19, 20, 21, 23, 24, 26, 27, 29, 30, 31} THEN 1 ELSE 0]

\* One bit: shift right by one, and subtract the polynomial if a one fell out.
BitStep(reg) ==
    Once(reg, LAMBDA bits :
        << >> \o [k \in 1..32 |->
            LET shifted == IF k = 32 THEN 0 ELSE bits[k + 1]
            IN IF bits[1] = 1 THEN BitXor(shifted, PolyBits[k]) ELSE shifted])

RECURSIVE BitSteps(_, _)
BitSteps(reg, n) ==
    IF n = 0 THEN reg ELSE Once(BitStep(reg), LAMBDA next : BitSteps(next, n - 1))

\* One byte: into the low eight bits, then eight bit steps.
ByteStep(reg, b) ==
    BitSteps(<< >> \o [k \in 1..32 |->
                 IF k <= 8 THEN BitXor(reg[k], (b \div Pow2(k - 1)) % 2) ELSE reg[k]],
             8)

RECURSIVE ByteSteps(_, _, _)
ByteSteps(reg, data, k) ==
    IF k > Len(data) THEN reg
    ELSE Once(ByteStep(reg, data[k]), LAMBDA next : ByteSteps(next, data, k + 1))

RECURSIVE BitsValue(_, _, _)
BitsValue(reg, from, n) ==
    IF n = 0 THEN 0 ELSE reg[from] + 2 * BitsValue(reg, from + 1, n - 1)

\* The reference checksum as a number, an unsigned one by construction.
BitwiseCrc32(data) ==
    LET reg == ByteSteps(<< >> \o [k \in 1..32 |-> 1], data, 1)
        inverted == << >> \o [k \in 1..32 |-> 1 - reg[k]]
    IN [hi |-> BitsValue(inverted, 17, 16), lo |-> BitsValue(inverted, 1, 16)]

(***************************************************************************)
(* C13  crc32 returns, for every byte sequence, the number the bit-by-bit  *)
(* reflected CRC-32 returns; the number lies in 0..2^32-1; for the empty   *)
(* sequence it is 0 (and for "123456789" the check value 0xCBF43926).      *)
(***************************************************************************)
C13_TableMatchesBitwise ==
    pc = "crc32 done" =>
        /\ crcOut = BitwiseCrc32(crcIn)
        /\ crcOut.hi \in 0..65535
        /\ crcOut.lo \in 0..65535
        /\ crcIn = << >> => crcOut = [hi |-> 0, lo |-> 0]
        /\ crcIn = CheckString => crcOut = [hi |-> 52212, lo |-> 14630]

\* crc32 has returned a number of 2^31 or more for a sequence of two bytes.
C13_Witness ==
    /\ pc = "crc32 done"
    /\ Len(crcIn) = 2
    /\ crcOut.hi >= 32768
    /\ crcOut = BitwiseCrc32(crcIn)

(***************************************************************************)
(* C15  Each local record is 30 header bytes, then the UTF-8 bytes of the  *)
(* normalized path, then the content bytes as they are, and nothing more;  *)
(* at every point of the loop the running offset is the sum of             *)
(* 30 + len(name) + len(content) over the surviving entries passed so far. *)
(***************************************************************************)
RECURSIVE RecordSizes(_, _)
RecordSizes(sv, n) ==
    IF n = 0 THEN 0
    ELSE RecordSizes(sv, n - 1)
           + 30 + Len(NameBytes(normalizePath(sv[n].path))) + Len(toBytes(sv[n].data))

C15_LocalRecordLength ==
    pc \in {"loop", "done"} =>
        LET sv == Survivors(SubSeq(files, 1, i - 1))
        IN /\ Len(localParts) = Len(sv)
           /\ offset = RecordSizes(sv, Len(sv))
           /\ \A k \in 1..Len(sv) :
                 LET name == NameBytes(normalizePath(sv[k].path))
                     content == toBytes(sv[k].data)
                     rec == localParts[k]
                 IN /\ Len(rec) = 30 + Len(name) + Len(content)
                    /\ SubSeq(rec, 1, 4) = << 80, 75, 3, 4 >>
                    /\ SubSeq(rec, 31, 30 + Len(name)) = name
                    /\ SubSeq(rec, 31 + Len(name), Len(rec)) = content

\* In the middle of the loop, after one dropped entry and one whose one-character name
\* and content are two bytes each: the running offset is 30 + 2 + 2.
C15_Witness ==
    /\ pc = "loop"
    /\ Len(files) = 3
    /\ i = 3
    /\ ~IsSurvivor(files[1])
    /\ files[2] = Entry(<< 233 >>, StrData(<< 233 >>))
    /\ Len(localParts) = 1
    /\ offset = 34

(***************************************************************************)
(* C19  Every call of createZipStore returns, and what it returns is the   *)
(* complete buffer: the loop has passed every entry of the list, and the   *)
(* buffer holds one local record per surviving entry, one central record   *)
(* per surviving entry and the end record, with nothing missing and        *)
(* nothing after it.  Before the return there is no buffer at all.         *)
(***************************************************************************)
RECURSIVE CentralSizes(_, _)
CentralSizes(sv, n) ==
    IF n = 0 THEN 0
    ELSE CentralSizes(sv, n - 1) + 46 + Len(NameBytes(normalizePath(sv[n].path)))

CompleteBuffer ==
    LET sv == Survivors(files)
        n == Len(sv)
        ls == LocalsFrom(out, 0, n)
        cd == CentralFrom(out, EndOf(ls, 0), n)
    IN /\ i = Len(files) + 1
       /\ Len(out) = RecordSizes(sv, n) + CentralSizes(sv, n) + 22
       /\ \A k \in 1..n : ls[k].sigOk /\ cd[k].sigOk
       /\ (IF n = 0 THEN 0 ELSE cd[n].next) = Len(out) - 22
       /\ EndSignatureOk(out)
       /\ EndTotalEntries(out) = n

C19_ReturnsCompleteBuffer ==
    /\ <>Returned
    /\ [](Returned => CompleteBuffer)
    /\ [](~Returned => out = << >>)

\* A call on three entries, one of them dropped, has returned.
C19_Witness ==
    /\ Returned
    /\ Len(files) = 3
    /\ i = 4
    /\ Len(Survivors(files)) = 2
    /\ Len(out) > 22
    /\ CompleteBuffer

(***************************************************************************)
(* createZipStore called again and again by the same module instance: each *)
(* call that returned is kept in history with its argument and its buffer. *)
(***************************************************************************)
CallEntries ==
    { Entry(PathATxt, DataHi),
      Entry(PathDirB, DataYo),
      Entry(<< Dot, Dot >>, DataX) }

CallInputs == ListsUpTo(CallEntries, MaxCallFiles)

InitCalls == \E fs \in CallInputs : Called(fs)

\* offset carried over from the previous call, as a variable of the module would be.
StartOffset_Kept(previous) == previous

\* let offset = 0: a variable of the call, fresh for each call.
StartOffset(previous) == 0

\* The caller has the returned buffer and calls createZipStore once more.
CallAgain ==
    /\ pc = "done"
    /\ Len(history) < MaxCalls
    /\ history' = Append(history, [files |-> files, out |-> out])
    /\ \E fs \in CallInputs : files' = fs
    /\ i' = 1
    /\ localParts' = << >>
    /\ centralParts' = << >>
    /\ offset' = StartOffset(offset)
    /\ pc' = "loop"
    /\ out' = << >>
    /\ UNCHANGED << entries, centralSize, endRecord, call, extracted, crcVars, crcTable,
                    postVars, restVars >>

NextCalls == ForOf \/ Return \/ CallAgain

SpecCalls == InitCalls /\ [][NextCalls]_vars

\* The calls that have returned so far, the current one included.
ReturnedCalls ==
    IF pc = "done" THEN Append(history, [files |-> files, out |-> out]) ELSE history

\* C14: two calls of createZipStore with equal entry lists return byte-identical
\* buffers, whatever calls were made before or in between; no call changes CRC_TABLE.
C14_Determinism ==
    /\ crcTable = CRC_TABLE
    /\ \A a, b \in 1..Len(ReturnedCalls) :
          ReturnedCalls[a].files = ReturnedCalls[b].files
             => ReturnedCalls[a].out = ReturnedCalls[b].out

\* The third call has returned; it had the argument of the first, a list with a kept
\* entry, and the call in between had another argument that also kept an entry.
C14_Witness ==
    /\ pc = "done"
    /\ Len(history) = 2
    /\ history[1].files = files
    /\ history[2].files # files
    /\ Len(out) > 22
    /\ Len(history[2].out) > 22
    /\ history[1].out = out

(***************************************************************************)
(* Strings of the request handler: sequences of UTF-16 code units, as the  *)
(* paths of createZipStore are.                                            *)
(***************************************************************************)
StartsWith(s, prefix) == Len(s) >= Len(prefix) /\ SubSeq(s, 1, Len(prefix)) = prefix

EndsWith(s, suffix) ==
    Len(s) >= Len(suffix) /\ SubSeq(s, Len(s) - Len(suffix) + 1, Len(s)) = suffix

Includes(s, part) ==
    \E k \in 1..(Len(s) - Len(part) + 1) : SubSeq(s, k, k + Len(part) - 1) = part

\* WhiteSpace and LineTerminator of ECMAScript, which trim, trimStart and trimEnd remove.
IsWhiteSpace(c) ==
    \/ c \in {9, 10, 11, 12, 13, 32, 160, 5760, 8232, 8233, 8239, 8287, 12288, 65279}
    \/ (c >= 8192 /\ c <= 8202)

RECURSIVE trimStart(_)
trimStart(s) ==
    Once(s, LAMBDA t : IF t # << >> /\ IsWhiteSpace(t[1]) THEN trimStart(Tail(t)) ELSE t)

RECURSIVE trimEnd(_)
trimEnd(s) ==
    Once(s, LAMBDA t :
        IF t # << >> /\ IsWhiteSpace(t[Len(t)]) THEN trimEnd(SubSeq(t, 1, Len(t) - 1)) ELSE t)

trim(s) == trimEnd(trimStart(s))

\* s[lo..hi] cut at each line feed, by halves as SplitRange is: the last piece of the
\* left half goes on in the right half.
RECURSIVE LinesRange(_, _, _)
LinesRange(s, lo, hi) ==
    IF lo > hi THEN << << >> >>
    ELSE IF lo = hi THEN (IF s[lo] = 10 THEN << << >>, << >> >> ELSE << << s[lo] >> >>)
    ELSE Once(LinesRange(s, lo, (lo + hi) \div 2), LAMBDA left :
         Once(LinesRange(s, ((lo + hi) \div 2) + 1, hi), LAMBDA right :
            SubSeq(left, 1, Len(left) - 1)
              \o << left[Len(left)] \o right[1] >>
              \o Tail(right)))

\* A piece without the carriage return at its end, if it has one.
WithoutCarriageReturn(piece) ==
    IF piece # << >> /\ piece[Len(piece)] = 13 THEN SubSeq(piece, 1, Len(piece) - 1)
    ELSE piece

\* s.split(/\r?\n/g): /\r?\n/ matches a line feed together with one carriage return in
\* front of it, so every piece but the last loses one carriage return at its end.
SplitLines(s) ==
    Once(s, LAMBDA t :
    Once(LinesRange(t, 1, Len(t)), LAMBDA pieces :
        << >> \o [k \in 1..Len(pieces) |->
                    IF k < Len(pieces) THEN WithoutCarriageReturn(pieces[k])
                    ELSE pieces[k]]))

\* parts.join(sep)
RECURSIVE JoinWith(_, _)
JoinWith(parts, sep) ==
    Once(parts, LAMBDA l :
        IF l = << >> THEN << >>
        ELSE IF Len(l) = 1 THEN l[1]
        ELSE l[1] \o sep \o JoinWith(Tail(l), sep))

\* String(n) for a natural number
RECURSIVE ToDecimal(_)
ToDecimal(n) == IF n < 10 THEN << 48 + n >> ELSE Append(ToDecimal(n \div 10), 48 + (n % 10))

\* A hexadecimal digit, lower case.
HexDigit(d) == IF d < 10 THEN 48 + d ELSE 87 + d

\* \uXXXX
UnicodeEscape(c) ==
    << 92, 117, HexDigit(c \div 4096), HexDigit((c \div 256) % 16),
       HexDigit((c \div 16) % 16), HexDigit(c % 16) >>

\* What JSON.stringify writes for the code unit at position k of a string
\* (QuoteJSONString): short escapes, \u00XX for the other control characters, \uDXXX
\* for a surrogate without its partner.
QuoteAt(s, k) ==
    LET c == s[k] IN
    IF c = 8 THEN << 92, 98 >>
    ELSE IF c = 9 THEN << 92, 116 >>
    ELSE IF c = 10 THEN << 92, 110 >>
    ELSE IF c = 12 THEN << 92, 102 >>
    ELSE IF c = 13 THEN << 92, 114 >>
    ELSE IF c = 34 THEN << 92, 34 >>
    ELSE IF c = 92 THEN << 92, 92 >>
    ELSE IF c < 32 THEN UnicodeEscape(c)
    ELSE IF IsHighSurrogate(c)
    THEN (IF k < Len(s) /\ IsLowSurrogate(s[k + 1]) THEN << c >> ELSE UnicodeEscape(c))
    ELSE IF IsLowSurrogate(c)
    THEN (IF k > 1 /\ IsHighSurrogate(s[k - 1]) THEN << c >> ELSE UnicodeEscape(c))
    ELSE << c >>

\* The quoted code units of s[lo..hi], by halves.
RECURSIVE QuoteRange(_, _, _)
QuoteRange(s, lo, hi) ==
    IF lo > hi THEN << >>
    ELSE IF lo = hi THEN QuoteAt(s, lo)
    ELSE QuoteRange(s, lo, (lo + hi) \div 2) \o QuoteRange(s, ((lo + hi) \div 2) + 1, hi)

\* JSON.stringify of a string
JsonString(s) == Once(s, LAMBDA t : << 34 >> \o QuoteRange(t, 1, Len(t)) \o << 34 >>)

\* v || fallback, for a string or undefined
OrElse(v, fallback) == IF v = Absent \/ v = << >> THEN fallback ELSE v

(***************************************************************************)
(* The texts the request handler writes, as code units.                    *)
(***************************************************************************)
\* 'discord-raffle-bot'
DefaultFolderName ==
    << 100, 105, 115, 99, 111, 114, 100, 45, 114, 97, 102, 102, 108, 101, 45, 98, 111,
       116 >>

\* 'windows'
Windows ==
    << 119, 105, 110, 100, 111, 119, 115 >>

\* '/README.md'
ReadmeName ==
    << 47, 82, 69, 65, 68, 77, 69, 46, 109, 100 >>

\* '/.env'
EnvName ==
    << 47, 46, 101, 110, 118 >>

\* '/config.json'
ConfigName ==
    << 47, 99, 111, 110, 102, 105, 103, 46, 106, 115, 111, 110 >>

\* '/setup_windows.bat'
SetupWindowsName ==
    << 47, 115, 101, 116, 117, 112, 95, 119, 105, 110, 100, 111, 119, 115, 46, 98, 97,
       116 >>

\* '/create_desktop_shortcut.bat'
ShortcutName ==
    << 47, 99, 114, 101, 97, 116, 101, 95, 100, 101, 115, 107, 116, 111, 112, 95, 115,
       104, 111, 114, 116, 99, 117, 116, 46, 98, 97, 116 >>

\* '/start_telegram_bot.sh'
StartShName ==
    << 47, 115, 116, 97, 114, 116, 95, 116, 101, 108, 101, 103, 114, 97, 109, 95, 98,
       111, 116, 46, 115, 104 >>

\* '/setup_unix.sh'
SetupUnixName ==
    << 47, 115, 101, 116, 117, 112, 95, 117, 110, 105, 120, 46, 115, 104 >>

\* 'TELEGRAM_BOT_TOKEN'
TelegramBotTokenKey ==
    << 84, 69, 76, 69, 71, 82, 65, 77, 95, 66, 79, 84, 95, 84, 79, 75, 69, 78 >>

\* 'TELEGRAM_ALLOWED_USER_ID'
TelegramAllowedUserIdKey ==
    << 84, 69, 76, 69, 71, 82, 65, 77, 95, 65, 76, 76, 79, 87, 69, 68, 95, 85, 83, 69,
       82, 95, 73, 68 >>

\* '# '
ReadmeTitle ==
    << 35, 32 >>

\* the README of route.ts after its title line
ReadmeRest ==
    << 10, 10, 84, 104, 105, 115, 32, 102, 111, 108, 100, 101, 114, 32, 119, 97, 115,
       32, 103, 101, 110, 101, 114, 97, 116, 101, 100, 32, 102, 114, 111, 109, 32, 116,
       104, 101, 32, 119, 101, 98, 115, 105, 116, 101, 32, 115, 101, 116, 117, 112, 32,
       119, 105, 122, 97, 114, 100, 46, 10, 10, 35, 35, 32, 81, 117, 105, 99, 107, 32,
       115, 116, 97, 114, 116, 32, 40, 87, 105, 110, 100, 111, 119, 115, 41, 10, 10, 96,
       96, 96, 98, 97, 116, 10, 112, 121, 116, 104, 111, 110, 32, 45, 109, 32, 118, 101,
       110, 118, 32, 118, 101, 110, 118, 10, 99, 97, 108, 108, 32, 118, 101, 110, 118,
       92, 83, 99, 114, 105, 112, 116, 115, 92, 97, 99, 116, 105, 118, 97, 116, 101, 10,
       112, 105, 112, 32, 105, 110, 115, 116, 97, 108, 108, 32, 45, 114, 32, 114, 101,
       113, 117, 105, 114, 101, 109, 101, 110, 116, 115, 46, 116, 120, 116, 10, 112,
       121, 116, 104, 111, 110, 32, 116, 101, 108, 101, 103, 114, 97, 109, 95, 114, 117,
       110, 110, 101, 114, 46, 112, 121, 10, 96, 96, 96, 10, 10, 35, 35, 32, 78, 111,
       116, 101, 115, 10, 10, 45, 32, 73, 102, 32, 80, 108, 97, 121, 119, 114, 105, 103,
       104, 116, 32, 105, 115, 32, 105, 110, 115, 116, 97, 108, 108, 101, 100, 44, 32,
       114, 117, 110, 58, 32, 96, 112, 121, 116, 104, 111, 110, 32, 45, 109, 32, 112,
       108, 97, 121, 119, 114, 105, 103, 104, 116, 32, 105, 110, 115, 116, 97, 108, 108,
       32, 99, 104, 114, 111, 109, 105, 117, 109, 96, 10, 45, 32, 67, 111, 110, 102,
       105, 103, 117, 114, 101, 32, 68, 105, 115, 99, 111, 114, 100, 32, 99, 114, 101,
       100, 101, 110, 116, 105, 97, 108, 115, 32, 105, 110, 32, 96, 46, 101, 110, 118,
       96, 10, 45, 32, 67, 111, 110, 102, 105, 103, 117, 114, 101, 32, 99, 104, 97, 110,
       110, 101, 108, 115, 32, 105, 110, 32, 96, 99, 111, 110, 102, 105, 103, 46, 106,
       115, 111, 110, 96, 10 >>

\* '\n\nThis folder was generated from the website setup wizard.\n\n## Quick sta...
ReadmeIntro ==
    << 10, 10, 84, 104, 105, 115, 32, 102, 111, 108, 100, 101, 114, 32, 119, 97, 115,
       32, 103, 101, 110, 101, 114, 97, 116, 101, 100, 32, 102, 114, 111, 109, 32, 116,
       104, 101, 32, 119, 101, 98, 115, 105, 116, 101, 32, 115, 101, 116, 117, 112, 32,
       119, 105, 122, 97, 114, 100, 46, 10, 10, 35, 35, 32, 81, 117, 105, 99, 107, 32,
       115, 116, 97, 114, 116, 32, 40 >>

\* the quick start for Windows: "Windows)", "Run:", the fence and the three lines
ReadmeWindows ==
    << 87, 105, 110, 100, 111, 119, 115, 41, 10, 10, 82, 117, 110, 58, 10, 10, 96, 96,
       96, 98, 97, 116, 10, 115, 101, 116, 117, 112, 95, 119, 105, 110, 100, 111, 119,
       115, 46, 98, 97, 116, 10, 10, 115, 116, 97, 114, 116, 95, 116, 101, 108, 101,
       103, 114, 97, 109, 95, 98, 111, 116, 46, 98, 97, 116, 10 >>

\* the quick start for macOS/Linux
ReadmeUnix ==
    << 109, 97, 99, 79, 83, 47, 76, 105, 110, 117, 120, 41, 10, 10, 82, 117, 110, 58,
       10, 10, 96, 96, 96, 98, 97, 115, 104, 10, 99, 104, 109, 111, 100, 32, 43, 120,
       32, 115, 101, 116, 117, 112, 95, 117, 110, 105, 120, 46, 115, 104, 32, 115, 116,
       97, 114, 116, 95, 116, 101, 108, 101, 103, 114, 97, 109, 95, 98, 111, 116, 46,
       115, 104, 10, 46, 47, 115, 101, 116, 117, 112, 95, 117, 110, 105, 120, 46, 115,
       104, 10, 46, 47, 115, 116, 97, 114, 116, 95, 116, 101, 108, 101, 103, 114, 97,
       109, 95, 98, 111, 116, 46, 115, 104, 10 >>

\* the closing fence and the notes
ReadmeNotes ==
    << 96, 96, 96, 10, 10, 35, 35, 32, 78, 111, 116, 101, 115, 10, 10, 45, 32, 73, 102,
       32, 80, 108, 97, 121, 119, 114, 105, 103, 104, 116, 32, 105, 115, 32, 105, 110,
       115, 116, 97, 108, 108, 101, 100, 44, 32, 114, 117, 110, 58, 32, 96, 112, 121,
       116, 104, 111, 110, 32, 45, 109, 32, 112, 108, 97, 121, 119, 114, 105, 103, 104,
       116, 32, 105, 110, 115, 116, 97, 108, 108, 32, 99, 104, 114, 111, 109, 105, 117,
       109, 96, 10, 45, 32, 67, 111, 110, 102, 105, 103, 117, 114, 101, 32, 68, 105,
       115, 99, 111, 114, 100, 32, 99, 114, 101, 100, 101, 110, 116, 105, 97, 108, 115,
       32, 105, 110, 32, 96, 46, 101, 110, 118, 96, 10, 45, 32, 67, 111, 110, 102, 105,
       103, 117, 114, 101, 32, 99, 104, 97, 110, 110, 101, 108, 115, 32, 105, 110, 32,
       96, 99, 111, 110, 102, 105, 103, 46, 106, 115, 111, 110, 96, 10 >>

\* setup_windows.bat
SetupWindowsBat ==
    << 64, 101, 99, 104, 111, 32, 111, 102, 102, 13, 10, 115, 101, 116, 108, 111, 99,
       97, 108, 13, 10, 99, 100, 32, 47, 100, 32, 34, 37, 126, 100, 112, 48, 34, 13, 10,
       101, 99, 104, 111, 32, 67, 114, 101, 97, 116, 105, 110, 103, 32, 118, 105, 114,
       116, 117, 97, 108, 32, 101, 110, 118, 105, 114, 111, 110, 109, 101, 110, 116, 46,
       46, 46, 13, 10, 105, 102, 32, 110, 111, 116, 32, 101, 120, 105, 115, 116, 32,
       118, 101, 110, 118, 32, 40, 13, 10, 32, 32, 112, 121, 116, 104, 111, 110, 32, 45,
       109, 32, 118, 101, 110, 118, 32, 118, 101, 110, 118, 13, 10, 41, 13, 10, 99, 97,
       108, 108, 32, 118, 101, 110, 118, 92, 83, 99, 114, 105, 112, 116, 115, 92, 97,
       99, 116, 105, 118, 97, 116, 101, 46, 98, 97, 116, 13, 10, 101, 99, 104, 111, 32,
       73, 110, 115, 116, 97, 108, 108, 105, 110, 103, 32, 100, 101, 112, 101, 110, 100,
       101, 110, 99, 105, 101, 115, 46, 46, 46, 13, 10, 112, 121, 116, 104, 111, 110,
       32, 45, 109, 32, 112, 105, 112, 32, 105, 110, 115, 116, 97, 108, 108, 32, 45, 45,
       117, 112, 103, 114, 97, 100, 101, 32, 112, 105, 112, 13, 10, 112, 105, 112, 32,
       105, 110, 115, 116, 97, 108, 108, 32, 45, 114, 32, 114, 101, 113, 117, 105, 114,
       101, 109, 101, 110, 116, 115, 46, 116, 120, 116, 13, 10, 101, 99, 104, 111, 32,
       73, 110, 115, 116, 97, 108, 108, 105, 110, 103, 32, 80, 108, 97, 121, 119, 114,
       105, 103, 104, 116, 32, 67, 104, 114, 111, 109, 105, 117, 109, 46, 46, 46, 13,
       10, 112, 121, 116, 104, 111, 110, 32, 45, 109, 32, 112, 108, 97, 121, 119, 114,
       105, 103, 104, 116, 32, 105, 110, 115, 116, 97, 108, 108, 32, 99, 104, 114, 111,
       109, 105, 117, 109, 13, 10, 101, 99, 104, 111, 32, 68, 111, 110, 101, 46, 13, 10,
       101, 99, 104, 111, 32, 78, 101, 120, 116, 58, 32, 100, 111, 117, 98, 108, 101,
       45, 99, 108, 105, 99, 107, 32, 115, 116, 97, 114, 116, 95, 116, 101, 108, 101,
       103, 114, 97, 109, 95, 98, 111, 116, 46, 98, 97, 116, 13, 10, 112, 97, 117, 115,
       101, 13, 10 >>

\* create_desktop_shortcut.bat
CreateDesktopShortcutBat ==
    << 64, 101, 99, 104, 111, 32, 111, 102, 102, 13, 10, 115, 101, 116, 108, 111, 99,
       97, 108, 13, 10, 99, 100, 32, 47, 100, 32, 34, 37, 126, 100, 112, 48, 34, 13, 10,
       112, 111, 119, 101, 114, 115, 104, 101, 108, 108, 32, 45, 78, 111, 80, 114, 111,
       102, 105, 108, 101, 32, 45, 69, 120, 101, 99, 117, 116, 105, 111, 110, 80, 111,
       108, 105, 99, 121, 32, 66, 121, 112, 97, 115, 115, 32, 45, 67, 111, 109, 109, 97,
       110, 100, 32, 34, 36, 87, 115, 104, 32, 61, 32, 78, 101, 119, 45, 79, 98, 106,
       101, 99, 116, 32, 45, 67, 111, 109, 79, 98, 106, 101, 99, 116, 32, 87, 83, 99,
       114, 105, 112, 116, 46, 83, 104, 101, 108, 108, 59, 32, 36, 68, 101, 115, 107,
       116, 111, 112, 32, 61, 32, 91, 69, 110, 118, 105, 114, 111, 110, 109, 101, 110,
       116, 93, 58, 58, 71, 101, 116, 70, 111, 108, 100, 101, 114, 80, 97, 116, 104, 40,
       39, 68, 101, 115, 107, 116, 111, 112, 39, 41, 59, 32, 36, 83, 104, 111, 114, 116,
       99, 117, 116, 32, 61, 32, 36, 87, 115, 104, 46, 67, 114, 101, 97, 116, 101, 83,
       104, 111, 114, 116, 99, 117, 116, 40, 40, 74, 111, 105, 110, 45, 80, 97, 116,
       104, 32, 36, 68, 101, 115, 107, 116, 111, 112, 32, 39, 83, 116, 97, 114, 116, 32,
       68, 105, 115, 99, 111, 114, 100, 32, 82, 97, 102, 102, 108, 101, 32, 66, 111,
       116, 46, 108, 110, 107, 39, 41, 41, 59, 32, 36, 83, 104, 111, 114, 116, 99, 117,
       116, 46, 84, 97, 114, 103, 101, 116, 80, 97, 116, 104, 32, 61, 32, 40, 74, 111,
       105, 110, 45, 80, 97, 116, 104, 32, 40, 71, 101, 116, 45, 76, 111, 99, 97, 116,
       105, 111, 110, 41, 32, 39, 115, 116, 97, 114, 116, 95, 116, 101, 108, 101, 103,
       114, 97, 109, 95, 98, 111, 116, 46, 98, 97, 116, 39, 41, 59, 32, 36, 83, 104,
       111, 114, 116, 99, 117, 116, 46, 87, 111, 114, 107, 105, 110, 103, 68, 105, 114,
       101, 99, 116, 111, 114, 121, 32, 61, 32, 40, 71, 101, 116, 45, 76, 111, 99, 97,
       116, 105, 111, 110, 41, 46, 80, 97, 116, 104, 59, 32, 36, 83, 104, 111, 114, 116,
       99, 117, 116, 46, 73, 99, 111, 110, 76, 111, 99, 97, 116, 105, 111, 110, 32, 61,
       32, 40, 74, 111, 105, 110, 45, 80, 97, 116, 104, 32, 36, 101, 110, 118, 58, 83,
       121, 115, 116, 101, 109, 82, 111, 111, 116, 32, 39, 83, 121, 115, 116, 101, 109,
       51, 50, 92, 92, 115, 104, 101, 108, 108, 51, 50, 46, 100, 108, 108, 44, 49, 54,
       55, 39, 41, 59, 32, 36, 83, 104, 111, 114, 116, 99, 117, 116, 46, 83, 97, 118,
       101, 40, 41, 34, 13, 10, 101, 99, 104, 111, 32, 68, 101, 115, 107, 116, 111, 112,
       32, 115, 104, 111, 114, 116, 99, 117, 116, 32, 99, 114, 101, 97, 116, 101, 100,
       46, 13, 10, 112, 97, 117, 115, 101, 13, 10 >>

\* start_telegram_bot.sh
StartTelegramBotSh ==
    << 35, 33, 47, 117, 115, 114, 47, 98, 105, 110, 47, 101, 110, 118, 32, 98, 97, 115,
       104, 10, 115, 101, 116, 32, 45, 101, 117, 111, 32, 112, 105, 112, 101, 102, 97,
       105, 108, 10, 99, 100, 32, 34, 36, 40, 100, 105, 114, 110, 97, 109, 101, 32, 34,
       36, 48, 34, 41, 34, 10, 105, 102, 32, 91, 32, 45, 102, 32, 34, 118, 101, 110,
       118, 47, 98, 105, 110, 47, 97, 99, 116, 105, 118, 97, 116, 101, 34, 32, 93, 59,
       32, 116, 104, 101, 110, 10, 32, 32, 35, 32, 115, 104, 101, 108, 108, 99, 104,
       101, 99, 107, 32, 100, 105, 115, 97, 98, 108, 101, 61, 83, 67, 49, 48, 57, 49,
       10, 32, 32, 115, 111, 117, 114, 99, 101, 32, 34, 118, 101, 110, 118, 47, 98, 105,
       110, 47, 97, 99, 116, 105, 118, 97, 116, 101, 34, 10, 102, 105, 10, 112, 121,
       116, 104, 111, 110, 51, 32, 116, 101, 108, 101, 103, 114, 97, 109, 95, 114, 117,
       110, 110, 101, 114, 46, 112, 121, 10 >>

\* setup_unix.sh
SetupUnixSh ==
    << 35, 33, 47, 117, 115, 114, 47, 98, 105, 110, 47, 101, 110, 118, 32, 98, 97, 115,
       104, 10, 115, 101, 116, 32, 45, 101, 117, 111, 32, 112, 105, 112, 101, 102, 97,
       105, 108, 10, 99, 100, 32, 34, 36, 40, 100, 105, 114, 110, 97, 109, 101, 32, 34,
       36, 48, 34, 41, 34, 10, 112, 121, 116, 104, 111, 110, 51, 32, 45, 109, 32, 118,
       101, 110, 118, 32, 118, 101, 110, 118, 10, 115, 111, 117, 114, 99, 101, 32, 34,
       118, 101, 110, 118, 47, 98, 105, 110, 47, 97, 99, 116, 105, 118, 97, 116, 101,
       34, 10, 112, 121, 116, 104, 111, 110, 32, 45, 109, 32, 112, 105, 112, 32, 105,
       110, 115, 116, 97, 108, 108, 32, 45, 45, 117, 112, 103, 114, 97, 100, 101, 32,
       112, 105, 112, 10, 112, 105, 112, 32, 105, 110, 115, 116, 97, 108, 108, 32, 45,
       114, 32, 114, 101, 113, 117, 105, 114, 101, 109, 101, 110, 116, 115, 46, 116,
       120, 116, 10, 112, 121, 116, 104, 111, 110, 32, 45, 109, 32, 112, 108, 97, 121,
       119, 114, 105, 103, 104, 116, 32, 105, 110, 115, 116, 97, 108, 108, 32, 99, 104,
       114, 111, 109, 105, 117, 109, 10, 101, 99, 104, 111, 32, 34, 68, 111, 110, 101,
       46, 32, 78, 101, 120, 116, 58, 32, 46, 47, 115, 116, 97, 114, 116, 95, 116, 101,
       108, 101, 103, 114, 97, 109, 95, 98, 111, 116, 46, 115, 104, 34, 10 >>

\* '{\n  "channels": ['
ConfigOpen ==
    << 123, 10, 32, 32, 34, 99, 104, 97, 110, 110, 101, 108, 115, 34, 58, 32, 91 >>

\* '\n    {\n      "name": '
ConfigChannelOpen ==
    << 10, 32, 32, 32, 32, 123, 10, 32, 32, 32, 32, 32, 32, 34, 110, 97, 109, 101, 34,
       58, 32 >>

\* ',\n      "url": '
ConfigChannelUrl ==
    << 44, 10, 32, 32, 32, 32, 32, 32, 34, 117, 114, 108, 34, 58, 32 >>

\* '\n    }'
ConfigChannelClose ==
    << 10, 32, 32, 32, 32, 125 >>

\* '\n  ]'
ConfigChannelsClose ==
    << 10, 32, 32, 93 >>

\* the selectors and the navigation object
ConfigRest ==
    << 44, 10, 32, 32, 34, 114, 97, 102, 102, 108, 101, 95, 98, 117, 116, 116, 111, 110,
       95, 115, 101, 108, 101, 99, 116, 111, 114, 115, 34, 58, 32, 91, 10, 32, 32, 32,
       32, 34, 98, 117, 116, 116, 111, 110, 58, 104, 97, 115, 45, 116, 101, 120, 116,
       40, 39, 69, 110, 116, 101, 114, 32, 82, 97, 102, 102, 108, 101, 39, 41, 34, 10,
       32, 32, 93, 44, 10, 32, 32, 34, 110, 97, 118, 105, 103, 97, 116, 105, 111, 110,
       34, 58, 32, 123, 10, 32, 32, 32, 32, 34, 119, 97, 105, 116, 95, 102, 111, 114,
       95, 112, 97, 103, 101, 95, 108, 111, 97, 100, 34, 58, 32, 53, 48, 48, 48, 44, 10,
       32, 32, 32, 32, 34, 115, 99, 114, 111, 108, 108, 95, 100, 101, 108, 97, 121, 34,
       58, 32, 50, 48, 48, 48, 10, 32, 32, 125, 10, 125 >>

\* 'Channel '
ChannelWord ==
    << 67, 104, 97, 110, 110, 101, 108, 32 >>

\* '.env'
DotEnv ==
    << 46, 101, 110, 118 >>

\* '.env.'
DotEnvDot ==
    << 46, 101, 110, 118, 46 >>

\* '/__pycache__/'
PycacheDir ==
    << 47, 95, 95, 112, 121, 99, 97, 99, 104, 101, 95, 95, 47 >>

\* 'venv/'
VenvDir ==
    << 118, 101, 110, 118, 47 >>

\* '.venv/'
DotVenvDir ==
    << 46, 118, 101, 110, 118, 47 >>

\* '.pyc'
DotPyc ==
    << 46, 112, 121, 99 >>

\* '.bat'
DotBat ==
    << 46, 98, 97, 116 >>

(***************************************************************************)
(* The functions of the request handler.  A request body is what           *)
(* request.json() makes of it: json is FALSE when it cannot be parsed,     *)
(* else each field is a string or Absent, includeWindowsSetup a boolean    *)
(* (FALSE when it is missing).                                             *)
(***************************************************************************)
Min(a, b) == IF a < b THEN a ELSE b

\* [<>:"/\\|?*\u0000-\u001F]
IsUnsafeChar(c) == c \in {60, 62, 58, 34, 47, 92, 124, 63, 42} \/ c <= 31

sanitizeFolderName(name) ==
    Once(OrElse(trim(name), DefaultFolderName), LAMBDA trimmed :
    Once(<< >> \o [k \in 1..Min(Len(trimmed), 60) |->
                     IF IsUnsafeChar(trimmed[k]) THEN 45 ELSE trimmed[k]], LAMBDA safe :
        OrElse(safe, DefaultFolderName)))

IsNonEmpty(s) == s # << >>

normalizeLines(input) ==
    Once(SplitLines(input), LAMBDA lines :
        SelectSeq(<< >> \o [k \in 1..Len(lines) |-> trim(lines[k])], IsNonEmpty))

\* One element of the channels array, indented by four spaces.
ChannelJson(url, idx) ==
    ConfigChannelOpen \o JsonString(ChannelWord \o ToDecimal(idx))
        \o ConfigChannelUrl \o JsonString(url) \o ConfigChannelClose

\* JSON.stringify({channels, raffle_button_selectors, navigation}, null, 2): an empty
\* array is written [], a non-empty one with an element per line.
makeConfigJson(channels) ==
    Once(channels, LAMBDA urls :
        ConfigOpen
          \o (IF urls = << >> THEN << 93 >>
              ELSE JoinWith(<< >> \o [k \in 1..Len(urls) |-> ChannelJson(urls[k], k)], << 44 >>)
                     \o ConfigChannelsClose)
          \o ConfigRest)

\* The index of the first line that sets key, 0 when there is none.
FindKey(lines, key) ==
    LET hits == {k \in 1..Len(lines) : StartsWith(trimStart(lines[k]), key \o << 61 >>)}
    IN IF hits = {} THEN 0 ELSE CHOOSE k \in hits : \A j \in hits : k <= j

upsertEnvVar(src, key, value) ==
    Once(SplitLines(src), LAMBDA lines :
    Once(FindKey(lines, key), LAMBDA idx :
        JoinWith(IF idx > 0 THEN [lines EXCEPT ![idx] = key \o << 61 >> \o value]
                 ELSE Append(lines, key \o << 61 >> \o value),
                 << 10 >>)))

\* s.replace(/\n{3,}/g, "\n\n"): of a run of line feeds the first two stay.
CollapseLineFeeds(s) ==
    Once(s, LAMBDA t :
        LET Kept(k) == ~(t[k] = 10 /\ k >= 3 /\ t[k - 1] = 10 /\ t[k - 2] = 10)
            idx == SelectSeq(<< >> \o [k \in 1..Len(t) |-> k], Kept)
        IN << >> \o [k \in 1..Len(idx) |-> t[idx[k]]])

\* field?.trim(), a missing field giving the empty string (both are falsy)
Trimmed(field) == IF field = Absent THEN << >> ELSE trim(field)

makeEnv(req) ==
    LET tpl == IF envExample = Absent THEN << >> ELSE envExample
        token == Trimmed(req.telegramBotToken)
        allowed == Trimmed(req.telegramAllowedUserId)
    IN Once(trimEnd(tpl), LAMBDA out0 :
       Once(IF token # << >> THEN upsertEnvVar(out0, TelegramBotTokenKey, token) ELSE out0,
            LAMBDA out1 :
       Once(IF allowed # << >> THEN upsertEnvVar(out1, TelegramAllowedUserIdKey, allowed)
            ELSE out1,
            LAMBDA out2 : CollapseLineFeeds(Append(out2, 10)))))

\* makeReadme of route.ts
makeReadme(folderName) == ReadmeTitle \o folderName \o ReadmeRest

\* makeReadme of the handler that knows the target system
makeReadmeOs(folderName, targetOs) ==
    ReadmeTitle \o folderName \o ReadmeIntro
      \o (IF targetOs = Windows THEN ReadmeWindows ELSE ReadmeUnix) \o ReadmeNotes

\* toLowerCase, for the ASCII names the template directory holds
toLowerCase(s) ==
    << >> \o [k \in 1..Len(s) |-> IF s[k] >= 65 /\ s[k] <= 90 THEN s[k] + 32 ELSE s[k]]

\* The exclusions of readTemplateFiles in route.ts.
Excluded(rel) ==
    \/ rel = DotEnv
    \/ StartsWith(rel, DotEnvDot)
    \/ Includes(rel, PycacheDir)
    \/ StartsWith(rel, VenvDir)
    \/ StartsWith(rel, DotVenvDir)
    \/ EndsWith(rel, DotPyc)

\* The exclusions of readTemplateFiles that knows the target system.
ExcludedOs(rel, targetOs) ==
    Excluded(rel) \/ (targetOs # Windows /\ EndsWith(toLowerCase(rel), DotBat))

\* path.relative(templateRoot, full).replace(/\\/g, "/")
Rel(entry) == ReplaceBackslashes(entry.rel)

\* The directories above an entry, as path.relative names them: walk reaches the entry
\* only through them.
Ancestors(rel) == {SubSeq(rel, 1, k - 1) : k \in {j \in 1..Len(rel) : rel[j] = Slash}}

\* readTemplateFiles of route.ts: template lists every entry below bot-template in the
\* order readdirSync yields them, a directory before what it holds, each with its
\* path relative to bot-template ('/' between directories), its kind and, for a file,
\* its bytes.
readTemplateFiles(folderName) ==
    IF template = Absent THEN << >>
    ELSE LET Pushed(e) ==
                 /\ e.kind = "file"
                 /\ ~Excluded(Rel(e))
                 /\ \A dir \in Ancestors(e.rel) : ~Excluded(ReplaceBackslashes(dir))
             found == SelectSeq(template, Pushed)
         IN << >> \o [k \in 1..Len(found) |->
                Entry(folderName \o << Slash >> \o Rel(found[k]), ByteData(found[k].data))]

\* readTemplateFiles with the target system
readTemplateFilesOs(folderName, targetOs) ==
    IF template = Absent THEN << >>
    ELSE LET Pushed(e) ==
                 /\ e.kind = "file"
                 /\ ~ExcludedOs(Rel(e), targetOs)
                 /\ \A dir \in Ancestors(e.rel) : ~ExcludedOs(ReplaceBackslashes(dir), targetOs)
             found == SelectSeq(template, Pushed)
         IN << >> \o [k \in 1..Len(found) |->
                Entry(folderName \o << Slash >> \o Rel(found[k]), ByteData(found[k].data))]

(***************************************************************************)
(* POST /api/generate.  Two source files hold a handler for it: route.ts,  *)
(* and a second one with a CAPTCHA check and a rate limit in front of the  *)
(* same generation.  A handler runs from one await to the next without     *)
(* interruption; between two awaits the handlers of other requests run.    *)
(* The response of a request that got an archive is held by the list that  *)
(* createZipStore was called with: the body is createZipStore of it.       *)
(***************************************************************************)
RATE_LIMIT_WINDOW_MS == 60000
RATE_LIMIT_MAX == 5

\* Date.now() is followed in steps of half a window, over MaxTicks steps.
TickMs == RATE_LIMIT_WINDOW_MS \div 2

MaxNow == MaxTicks * TickMs

\* "unknown"
Unknown == << 117, 110, 107, 110, 111, 119, 110 >>

\* xff.split(",")[0]
BeforeComma(s) ==
    LET commas == {k \in 1..Len(s) : s[k] = 44}
    IN IF commas = {} THEN s
       ELSE SubSeq(s, 1, (CHOOSE k \in commas : \A j \in commas : k <= j) - 1)

\* req is a request as sent: its headers x-forwarded-for and x-real-ip, its body.
getClientIp(req) ==
    IF req.xff # Absent /\ req.xff # << >> THEN trim(BeforeComma(req.xff))
    ELSE OrElse(req.realIp, Unknown)

\* hits.filter((t) => t > cutoff), then recent.push(now)
RecentHits(ip) ==
    LET hits == IF ip \in DOMAIN rateLimitHits THEN rateLimitHits[ip] ELSE << >>
        IsRecent(t) == t > now - RATE_LIMIT_WINDOW_MS
    IN Append(SelectSeq(hits, IsRecent), now)

\* rateLimitHits.set(ip, recent)
SetHits(ip, recent) ==
    [k \in DOMAIN rateLimitHits \cup {ip} |-> IF k = ip THEN recent ELSE rateLimitHits[k]]

\* const channels = normalizeLines(body.discordChannelLinks || "")
ChannelsOf(body) ==
    normalizeLines(IF body.discordChannelLinks = Absent THEN << >>
                   ELSE body.discordChannelLinks)

\* const folderName = sanitizeFolderName(body.projectFolderName || "discord-raffle-bot")
FolderNameOf(body) == sanitizeFolderName(OrElse(body.projectFolderName, DefaultFolderName))

\* const targetOs = body.targetOs || "windows"
TargetOsOf(body) == OrElse(body.targetOs, Windows)

\* The two scripts pushed for includeWindowsSetup.
WindowsSetupFiles(folderName) ==
    << Entry(folderName \o SetupWindowsName, StrData(SetupWindowsBat)),
       Entry(folderName \o ShortcutName, StrData(CreateDesktopShortcutBat)) >>

\* templateFiles of route.ts when createZipStore is called
TemplateFiles(body) ==
    Once(FolderNameOf(body), LAMBDA folderName :
        readTemplateFiles(folderName)
          \o << Entry(folderName \o ReadmeName, StrData(makeReadme(folderName))),
                Entry(folderName \o EnvName, StrData(makeEnv(body))),
                Entry(folderName \o ConfigName, StrData(makeConfigJson(ChannelsOf(body)))) >>
          \o (IF body.includeWindowsSetup THEN WindowsSetupFiles(folderName) ELSE << >>))

\* templateFiles of the handler with the target system when createZipStore is called
TemplateFilesOs(body) ==
    Once(FolderNameOf(body), LAMBDA folderName :
    Once(TargetOsOf(body), LAMBDA targetOs :
        readTemplateFilesOs(folderName, targetOs)
          \o << Entry(folderName \o ReadmeName, StrData(makeReadmeOs(folderName, targetOs))),
                Entry(folderName \o EnvName, StrData(makeEnv(body))),
                Entry(folderName \o ConfigName, StrData(makeConfigJson(ChannelsOf(body)))) >>
          \o (IF targetOs # Windows
              THEN << Entry(folderName \o StartShName, StrData(StartTelegramBotSh)) >>
              ELSE << >>)
          \o (IF ~body.includeWindowsSetup THEN << >>
              ELSE IF targetOs = Windows THEN WindowsSetupFiles(folderName)
              ELSE << Entry(folderName \o SetupUnixName, StrData(SetupUnixSh)) >>)))

\* A request whose handler has run up to await request.json().
PostRequest(xff, realIp, body) ==
    [ xff |-> xff, realIp |-> realIp, body |-> body,
      pc |-> "request.json",    \* then "fetch", "resp.json", "responded"
      handledAt |-> -1,         \* Date.now() when the handler went on after request.json()
      answer |-> "none",        \* what the siteverify response holds
      status |-> 0,
      contentType |-> "none",
      zipCalled |-> FALSE,
      zipFiles |-> << >> ]

\* NextResponse.json({ error }, { status })
ErrorResponse(q, status) ==
    [q EXCEPT !.pc = "responded", !.status = status, !.contentType = "application/json"]

\* const zip = createZipStore(templateFiles); return new NextResponse(zip, ...)
ZipResponse(q, templateFiles) ==
    [q EXCEPT !.pc = "responded", !.status = 200, !.contentType = "application/zip",
              !.zipCalled = TRUE, !.zipFiles = templateFiles]

\* An exception that leaves POST: the framework answers 500.
ServerError(q) ==
    [q EXCEPT !.pc = "responded", !.status = 500, !.contentType = "none"]

\* The body of the response of a request that got an archive.
Archive(q) == createZipStore(q.zipFiles)

\* POST of route.ts, from the end of await request.json() to its return.
RoutePost ==
    \E r \in DOMAIN requests :
        /\ handler = "route.ts"
        /\ requests[r].pc = "request.json"
        /\ LET q == [requests[r] EXCEPT !.handledAt = now]
           IN requests' = [requests EXCEPT ![r] =
                  IF ~q.body.json THEN ErrorResponse(q, 400)
                  ELSE ZipResponse(q, TemplateFiles(q.body))]
        /\ UNCHANGED << handler, secretSet, template, envExample, now, rateLimitHits >>
        /\ UNCHANGED << zipVars, pc, crcVars, crcTable, history, restVars >>

\* POST with the CAPTCHA, from the end of await request.json() to await fetch(...) in
\* verifyTurnstile, or to the return that comes before it.
TurnstilePost ==
    \E r \in DOMAIN requests :
        /\ handler = "part_002"
        /\ requests[r].pc = "request.json"
        /\ LET q == [requests[r] EXCEPT !.handledAt = now]
               ip == getClientIp(q)
               recent == RecentHits(ip)
               token == Trimmed(q.body.turnstileToken)
           IN IF ~q.body.json
              THEN /\ requests' = [requests EXCEPT ![r] = ErrorResponse(q, 400)]
                   /\ UNCHANGED rateLimitHits
              ELSE /\ rateLimitHits' = SetHits(ip, recent)
                   /\ requests' = [requests EXCEPT ![r] =
                          IF Len(recent) > RATE_LIMIT_MAX THEN ErrorResponse(q, 429)
                          ELSE IF token = << >> THEN ErrorResponse(q, 400)
                          ELSE IF ~secretSet THEN ErrorResponse(q, 400)
                          ELSE [q EXCEPT !.pc = "fetch"]]
        /\ UNCHANGED << handler, secretSet, template, envExample, now >>
        /\ UNCHANGED << zipVars, pc, crcVars, crcTable, history, restVars >>

\* What await fetch(siteverify) brings: a rejection, or a response whose body does not
\* parse, is null, has no true success, or has success true.
Answers == {"unparsable", "null", "failure", "success"}

\* await fetch(...) settles.
FetchSettles ==
    \E r \in DOMAIN requests :
        /\ handler = "part_002"
        /\ requests[r].pc = "fetch"
        /\ \E outcome \in Answers \cup {"rejected"} :
              requests' = [requests EXCEPT ![r] =
                  IF outcome = "rejected" THEN ServerError(@)
                  ELSE [@ EXCEPT !.pc = "resp.json", !.answer = outcome]]
        /\ UNCHANGED << handler, secretSet, template, envExample, now, rateLimitHits >>
        /\ UNCHANGED << zipVars, pc, crcVars, crcTable, history, restVars >>

\* From the end of await resp.json().catch(() => null) to the return of POST.
VerifyTurnstile ==
    \E r \in DOMAIN requests :
        /\ handler = "part_002"
        /\ requests[r].pc = "resp.json"
        /\ LET q == requests[r]
           IN requests' = [requests EXCEPT ![r] =
                  IF q.answer # "success" THEN ErrorResponse(q, 400)
                  ELSE ZipResponse(q, TemplateFilesOs(q.body))]
        /\ UNCHANGED << handler, secretSet, template, envExample, now, rateLimitHits >>
        /\ UNCHANGED << zipVars, pc, crcVars, crcTable, history, restVars >>

\* Time passes.
Tick ==
    /\ handler # "none"
    /\ now < MaxNow
    /\ now' = now + TickMs
    /\ UNCHANGED << handler, secretSet, template, envExample, rateLimitHits, requests >>
    /\ UNCHANGED << zipVars, pc, crcVars, crcTable, history, restVars >>

(***************************************************************************)
(* One request, of any of the bodies below, against any of the template    *)
(* directories below.                                                      *)
(***************************************************************************)
File(rel, data) == [rel |-> rel, kind |-> "file", data |-> data]
Dir(rel) == [rel |-> rel, kind |-> "dir", data |-> << >>]
Other(rel) == [rel |-> rel, kind |-> "other", data |-> << >>]

\* README.md, config.json, main.py, .env.example
PlainTemplate ==
    << File(<< 82, 69, 65, 68, 77, 69, 46, 109, 100 >>, << 111, 108, 100 >>),
       File(<< 99, 111, 110, 102, 105, 103, 46, 106, 115, 111, 110 >>, << 123, 125 >>),
       File(<< 109, 97, 105, 110, 46, 112, 121 >>, << 120 >>),
       File(<< 46, 101, 110, 118, 46, 101, 120, 97, 109, 112, 108, 101 >>, << 84, 61 >>) >>

\* TELEGRAM_BOT_TOKEN=, TELEGRAM_ALLOWED_USER_ID= and ALPHABOT_SESSION_TOKEN=, a line each
PlainEnvExample ==
    << 84, 69, 76, 69, 71, 82, 65, 77, 95, 66, 79, 84, 95, 84, 79, 75, 69, 78, 61, 10, 84,
   69, 76, 69, 71, 82, 65, 77, 95, 65, 76, 76, 79, 87, 69, 68, 95, 85, 83, 69, 82, 95,
   73, 68, 61, 10, 65, 76, 80, 72, 65, 66, 79, 84, 95, 83, 69, 83, 83, 73, 79, 78, 95,
   84, 79, 75, 69, 78, 61, 10 >>

\* .env, venv/, venv/cfg, run.BAT, a.pyc, pkg/, pkg/__pycache__/, pkg/__pycache__/m.txt,
\* pkg/b.py, and an entry that is neither a file nor a directory
MixedTemplate ==
    << File(<< 46, 101, 110, 118 >>, << 83, 61, 49 >>),
       Dir(<< 118, 101, 110, 118 >>),
       File(<< 118, 101, 110, 118, 47, 99, 102, 103 >>, << 118 >>),
       File(<< 114, 117, 110, 46, 66, 65, 84 >>, << 114 >>),
       File(<< 97, 46, 112, 121, 99 >>, << 112 >>),
       Dir(<< 112, 107, 103 >>),
       Dir(<< 112, 107, 103, 47, 95, 95, 112, 121, 99, 97, 99, 104, 101, 95, 95 >>),
       File(<< 112, 107, 103, 47, 95, 95, 112, 121, 99, 97, 99, 104, 101, 95, 95, 47, 109, 46, 116,
   120, 116 >>, << 109 >>),
       File(<< 112, 107, 103, 47, 98, 46, 112, 121 >>, << 98 >>),
       Other(<< 108, 105, 110, 107 >>) >>

\* __pycache__/, __pycache__/m.pyc, __pycache__/notes.txt, .venv/, .venv/pyvenv.cfg,
\* .env.local, main.py
CacheTemplate ==
    << Dir(<< 95, 95, 112, 121, 99, 97, 99, 104, 101, 95, 95 >>),
       File(<< 95, 95, 112, 121, 99, 97, 99, 104, 101, 95, 95, 47, 109, 46, 112, 121, 99 >>, << 99 >>),
       File(<< 95, 95, 112, 121, 99, 97, 99, 104, 101, 95, 95, 47, 110, 111, 116, 101, 115, 46, 116,
   120, 116 >>, << 110 >>),
       Dir(<< 46, 118, 101, 110, 118 >>),
       File(<< 46, 118, 101, 110, 118, 47, 112, 121, 118, 101, 110, 118, 46, 99, 102, 103 >>, << 118 >>),
       File(<< 46, 101, 110, 118, 46, 108, 111, 99, 97, 108 >>, << 83, 61, 50 >>),
       File(<< 109, 97, 105, 110, 46, 112, 121 >>, << 120 >>) >>

\* "A=1", three empty lines ended by CR LF, an indented TELEGRAM_BOT_TOKEN=old, two
\* empty lines
MixedEnvExample ==
    << 65, 61, 49, 13, 10, 13, 10, 13, 10, 13, 10, 32, 32, 84, 69, 76, 69, 71, 82, 65, 77,
   95, 66, 79, 84, 95, 84, 79, 75, 69, 78, 61, 111, 108, 100, 10, 10, 10 >>

TemplateDirs ==
    { [listing |-> Absent, envExample |-> Absent],
      [listing |-> PlainTemplate, envExample |-> PlainEnvExample],
      [listing |-> MixedTemplate, envExample |-> MixedEnvExample],
      [listing |-> CacheTemplate, envExample |-> Absent] }

\* The body {}.
EmptyBody ==
    [ json |-> TRUE,
      telegramBotToken |-> Absent,
      telegramAllowedUserId |-> Absent,
      discordChannelLinks |-> Absent,
      projectFolderName |-> Absent,
      includeWindowsSetup |-> FALSE,
      targetOs |-> Absent,
      turnstileToken |-> Absent,
      alphabotSessionToken |-> Absent ]

\* A body that is not JSON.
InvalidBody == [EmptyBody EXCEPT !.json = FALSE]

\* "tok"
Tok == << 116, 111, 107 >>

\* "s3ss"
Sess == << 115, 51, 115, 115 >>

\* The wizard's initial state, with a CAPTCHA token.
WizardBody ==
    [ json |-> TRUE,
      telegramBotToken |-> << >>,
      telegramAllowedUserId |-> << >>,
      discordChannelLinks |-> << >>,
      projectFolderName |-> DefaultFolderName,
      includeWindowsSetup |-> TRUE,
      targetOs |-> Windows,
      turnstileToken |-> Tok,
      alphabotSessionToken |-> << >> ]

\* Every field filled: tokens with blanks around them, two channel lines with an empty
\* line between them, a folder name with a colon, macOS.
FilledBody ==
    [ json |-> TRUE,
      telegramBotToken |-> << 32, 49, 50, 58, 97, 98, 32 >>,
      telegramAllowedUserId |-> << 55 >>,
      discordChannelLinks |-> << 104, 116, 116, 112, 115, 58, 47, 47, 100, 47, 49, 13, 10, 32, 10, 32, 117, 34, 50, 32 >>,
      projectFolderName |-> << 32, 109, 121, 58, 98, 111, 116, 32 >>,
      includeWindowsSetup |-> FALSE,
      targetOs |-> << 109, 97, 99 >>,
      turnstileToken |-> << 32, 116, 111, 107, 32 >>,
      alphabotSessionToken |-> Sess ]

PostBodies ==
    { InvalidBody,
      EmptyBody,
      WizardBody,
      FilledBody,
      [WizardBody EXCEPT !.alphabotSessionToken = Sess],
      [WizardBody EXCEPT !.projectFolderName = << 46, 46 >>, !.includeWindowsSetup = FALSE],
      [WizardBody EXCEPT !.targetOs = << 108, 105, 110, 117, 120 >>],
      [FilledBody EXCEPT !.turnstileToken = << 32, 32 >>],
      [FilledBody EXCEPT !.turnstileToken = Absent] }

\* "1.1.1.1, 9.9.9.9"
ForwardedA == << 49, 46, 49, 46, 49, 46, 49, 44, 32, 57, 46, 57, 46, 57, 46, 57 >>

\* "1.1.1.1"
IpA == << 49, 46, 49, 46, 49, 46, 49 >>

\* "2.2.2.2"
IpB == << 50, 46, 50, 46, 50, 46, 50 >>

Handlers == {"route.ts", "part_002"}

InitPost ==
    /\ NoZipView
    /\ pc = "POST"
    /\ NoCrcView
    /\ ModuleLoaded
    /\ NoHistory
    /\ NoFrameView
    /\ NoUiView
    /\ handler \in Handlers
    /\ secretSet \in BOOLEAN
    /\ \E dir \in TemplateDirs : template = dir.listing /\ envExample = dir.envExample
    /\ now = 0
    /\ rateLimitHits = << >>
    /\ \E body \in PostBodies, xff \in {Absent, ForwardedA} :
          requests = << PostRequest(xff, Absent, body) >>

NextPost == RoutePost \/ TurnstilePost \/ FetchSettles \/ VerifyTurnstile

SpecPost == InitPost /\ [][NextPost]_vars

(***************************************************************************)
(* MaxRateRequests requests of one client and one of another, while time   *)
(* passes: the first carries a CAPTCHA token, the others carry none.       *)
(***************************************************************************)
RateRequests ==
    << PostRequest(ForwardedA, Absent, [EmptyBody EXCEPT !.turnstileToken = Tok]) >>
      \o [k \in 1..(MaxRateRequests - 1) |-> PostRequest(Absent, IpA, EmptyBody)]
      \o << PostRequest(Absent, IpB, EmptyBody) >>

InitRate ==
    /\ NoZipView
    /\ pc = "POST"
    /\ NoCrcView
    /\ ModuleLoaded
    /\ NoHistory
    /\ NoFrameView
    /\ NoUiView
    /\ handler \in Handlers
    /\ secretSet = TRUE
    /\ template = Absent
    /\ envExample = Absent
    /\ now = 0
    /\ rateLimitHits = << >>
    /\ requests = RateRequests

NextRate == NextPost \/ Tick

SpecRate == InitRate /\ [][NextRate]_vars

(***************************************************************************)
(* C16  The generate endpoint returns an archive only for a request whose  *)
(* Turnstile token is non-empty and was verified successfully; when        *)
(* TURNSTILE_SECRET_KEY is unset, or the token is empty, or the answer of  *)
(* the verification does not parse, is null or is not a success, the       *)
(* request is answered 400 and createZipStore is not called.               *)
(***************************************************************************)
Responded(q) == q.pc = "responded"

GotArchive(q) == q.zipCalled \/ q.contentType = "application/zip"

C16_ArchiveOnlyAfterCaptcha ==
    \A r \in DOMAIN requests :
        LET q == requests[r]
            token == Trimmed(q.body.turnstileToken)
        IN /\ GotArchive(q) => token # << >> /\ secretSet /\ q.answer = "success"
           /\ ( /\ Responded(q)
                /\ q.body.json
                /\ \/ token = << >>
                   \/ ~secretSet
                   \/ q.answer \in {"unparsable", "null", "failure"} )
              => q.status = 400 /\ ~q.zipCalled

(***************************************************************************)
(* C17  For every client IP and under any interleaving of the handlers, at *)
(* most RATE_LIMIT_MAX requests handled within a window shorter than       *)
(* RATE_LIMIT_WINDOW_MS get past the rate limit; the others are answered   *)
(* 429.  A window is taken from the time each request was handled.         *)
(***************************************************************************)
\* The handler went on after request.json() and did not answer 429.
Admitted(q) == q.handledAt >= 0 /\ q.body.json /\ q.status # 429

AdmittedInWindow(ip, from) ==
    {r \in DOMAIN requests :
        /\ Admitted(requests[r])
        /\ getClientIp(requests[r]) = ip
        /\ requests[r].handledAt >= from
        /\ requests[r].handledAt < from + RATE_LIMIT_WINDOW_MS}

C17_RateLimit ==
    \A r \in DOMAIN requests :
        requests[r].handledAt >= 0
          => Cardinality(AdmittedInWindow(getClientIp(requests[r]), requests[r].handledAt))
               <= RATE_LIMIT_MAX

(***************************************************************************)
(* C18  When alphabotSessionToken is not empty in the request, the .env    *)
(* of the generated bundle contains it.                                    *)
(***************************************************************************)
\* The contents of the entries createZipStore was called with under the given name of
\* the generated folder.
ContentsOf(q, name) ==
    LET path == FolderNameOf(q.body) \o name
        HasPath(f) == f.path = path
        found == SelectSeq(q.zipFiles, HasPath)
    IN << >> \o [k \in 1..Len(found) |-> toBytes(found[k].data)]

HasAlphabotToken(q) ==
    q.body.alphabotSessionToken # Absent /\ trim(q.body.alphabotSessionToken) # << >>

C18_EnvCarriesAlphabotToken ==
    \A r \in DOMAIN requests :
        LET q == requests[r]
        IN q.zipCalled /\ HasAlphabotToken(q)
             => /\ ContentsOf(q, EnvName) # << >>
                /\ \A k \in 1..Len(ContentsOf(q, EnvName)) :
                      Includes(ContentsOf(q, EnvName)[k],
                               TextEncode(trim(q.body.alphabotSessionToken)))

(***************************************************************************)
(* C20  In the archive POST returns, <folderName>/README.md,               *)
(* <folderName>/.env and <folderName>/config.json each appear exactly once *)
(* and carry the generated content, whatever the template directory holds. *)
(***************************************************************************)
\* The contents a reader finds in the archive under a name.
ExtractedUnder(buf, name) ==
    Once(<< >> \o Extracted(buf), LAMBDA all :
        LET HasName(e) == e.name = name
            found == SelectSeq(all, HasName)
        IN << >> \o [k \in 1..Len(found) |-> found[k].data])

\* The README the handler of the request generates.
ReadmeOf(q) ==
    IF handler = "route.ts" THEN makeReadme(FolderNameOf(q.body))
    ELSE makeReadmeOs(FolderNameOf(q.body), TargetOsOf(q.body))

GeneratedOnce(buf, q, name, text) ==
    ExtractedUnder(buf, TextEncode(FolderNameOf(q.body) \o name)) = << TextEncode(text) >>

C20_GeneratedFilesOnce ==
    \A r \in DOMAIN requests :
        LET q == requests[r]
        IN q.zipCalled
             => Once(Archive(q), LAMBDA buf :
                    /\ GeneratedOnce(buf, q, ReadmeName, ReadmeOf(q))
                    /\ GeneratedOnce(buf, q, EnvName, makeEnv(q.body))
                    /\ GeneratedOnce(buf, q, ConfigName, makeConfigJson(ChannelsOf(q.body))))

(***************************************************************************)
(* C21  For every request, every entry name in the returned archive starts *)
(* with the folder name sanitizeFolderName returned (the one used in the   *)
(* Content-Disposition filename) followed by '/', for every                *)
(* projectFolderName, names made only of dots included.                    *)
(***************************************************************************)
C21_NamesUnderFolder ==
    \A r \in DOMAIN requests :
        LET q == requests[r]
        IN q.zipCalled
             => Once(<< >> \o Extracted(Archive(q)), LAMBDA all :
                    \A k \in 1..Len(all) :
                        StartsWith(all[k].name,
                                   TextEncode(FolderNameOf(q.body) \o << Slash >>)))

(***************************************************************************)
(* Calls of createZipStore running side by side.  Each call has its own    *)
(* localParts, centralParts and offset (the const and let of lines 75-78)  *)
(* and its own iterator over the caller's list; the calls share CRC_TABLE  *)
(* and nothing else.  The steps of the calls are taken in any order.       *)
(***************************************************************************)
\* What a call has when it starts on the list fs.
Invocation(fs) ==
    [files |-> fs, i |-> 1, locals |-> LoopStart, pc |-> "loop", out |-> << >>]

\* The lists the calls are given: none, one or two entries, one of them dropped.
FrameInputs ==
    ListsUpTo(CallEntries, 1)
      \cup { << Entry(PathATxt, DataHi), Entry(PathDirB, DataYo) >>,
             << Entry(<< Dot, Dot >>, DataX), Entry(PathATxt, DataHi) >> }

InitFrames ==
    /\ NoZipView
    /\ pc = "calls"
    /\ NoCrcView
    /\ ModuleLoaded
    /\ NoHistory
    /\ NoPostView
    /\ NoUiView
    /\ callers \in [1..MaxFrames -> FrameInputs]
    /\ invocations = [k \in 1..MaxFrames |-> Invocation(callers[k])]

\* The three locals as one variable of the module, which every call would work on.
LocalsOf_Module(all, k) == all[1].locals

\* localParts, centralParts, offset of the call k.
LocalsOf(all, k) == all[k].locals

\* One iteration of the for-of loop of the call k.
FrameForOf ==
    \E k \in DOMAIN invocations :
        LET c == invocations[k]
        IN /\ c.pc = "loop"
           /\ c.i <= Len(c.files)
           /\ invocations' =
                [invocations EXCEPT
                    ![k].locals = LoopBody(LocalsOf(invocations, k), c.files[c.i]),
                    ![k].i = c.i + 1]
           /\ UNCHANGED << callers, zipVars, pc, crcVars, crcTable, history, postVars, uiVars >>

\* The code after the loop of the call k, and its return.
FrameReturn ==
    \E k \in DOMAIN invocations :
        LET c == invocations[k]
        IN /\ c.pc = "loop"
           /\ c.i > Len(c.files)
           /\ invocations' =
                [invocations EXCEPT
                    ![k].out = Assemble(LocalsOf(invocations, k)),
                    ![k].pc = "done"]
           /\ UNCHANGED << callers, zipVars, pc, crcVars, crcTable, history, postVars, uiVars >>

NextFrames == FrameForOf \/ FrameReturn

SpecFrames == InitFrames /\ [][NextFrames]_vars

(***************************************************************************)
(* C22  createZipStore writes no state that outlives the call: CRC_TABLE   *)
(* is never written after the module is initialised, the caller's entry    *)
(* list, paths and content bytes stay as they were, and calls that run     *)
(* interleaved return the buffers the same calls return when run alone,    *)
(* one after another.                                                      *)
(***************************************************************************)
C22_NoSharedState ==
    /\ crcTable = CRC_TABLE
    /\ \A k \in DOMAIN invocations :
          /\ invocations[k].files = callers[k]
          /\ invocations[k].pc = "done"
               => invocations[k].out = createZipStore(callers[k])

\* Both calls have returned, each kept an entry, and their lists differ.
C22_Witness ==
    /\ pc = "calls"
    /\ \A k \in DOMAIN invocations :
          invocations[k].pc = "done" /\ Len(invocations[k].out) > 22
    /\ callers[1] # callers[2]
    /\ invocations[1].out # invocations[2].out

(***************************************************************************)
(* C23  For every surviving entry, the local record and the central record *)
(* written for it carry the same name bytes, the same filename-length      *)
(* value, the same CRC32 value, which is crc32 of the content, and the     *)
(* same two size values.                                                   *)
(***************************************************************************)
C23_LocalAndCentralAgree ==
    \A k \in 1..Len(localParts) :
        LET sv == Survivors(SubSeq(files, 1, i - 1))
            name == NameBytes(normalizePath(sv[k].path))
            data == toBytes(sv[k].data)
            local == localParts[k]
            central == centralParts[k]
        IN /\ Len(centralParts) = Len(localParts)
           /\ Len(sv) = Len(localParts)
           \* the name
           /\ Slice(local, 30, Len(name)) = name
           /\ Slice(central, 46, Len(name)) = name
           /\ Len(central) = 46 + Len(name)
           \* the filename length
           /\ Slice(local, 26, 2) = Slice(central, 28, 2)
           /\ U16At(local, 26) = Len(name)
           \* the checksum
           /\ Slice(local, 14, 4) = Slice(central, 16, 4)
           /\ Slice(local, 14, 4) = u32leWord(crc32(data))
           \* compressed and uncompressed size
           /\ Slice(local, 18, 8) = Slice(central, 20, 8)
           /\ U32At(local, 18) = Len(data)
           /\ U32At(local, 22) = Len(data)

\* Two entries were written, with different names, contents and checksums.
C23_Witness ==
    /\ Returned
    /\ Len(localParts) = 2
    /\ Len(files) = 3
    /\ Slice(localParts[1], 14, 4) # Slice(localParts[2], 14, 4)
    /\ Slice(centralParts[1], 16, 4) # << 0, 0, 0, 0 >>
    /\ U16At(localParts[1], 26) # U16At(localParts[2], 26)
    /\ U32At(centralParts[1], 20) # U32At(centralParts[2], 20)

(***************************************************************************)
(* C24  In every local and central record the 16-bit filename-length field *)
(* equals the number of name bytes that follow the header, and the 32-bit  *)
(* offset and size fields equal the true offset and content length: no     *)
(* field is truncated by its width, for every name length.  Read from the  *)
(* archive: the name a reader takes with the filename-length field is as   *)
(* long as the name written, and the records built for the entry hold that *)
(* length and the content length in their fields.                          *)
(***************************************************************************)
C24_NoTruncation ==
    (pc = "done" /\ call # << >>) =>
        LET sv == Survivors(Expand(call))
        IN /\ Len(extracted) = Len(sv)
           /\ \A k \in 1..Len(sv) :
                Once(NameBytes(normalizePath(sv[k].path)), LAMBDA name :
                Once(toBytes(sv[k].data), LAMBDA data :
                    /\ Len(extracted[k].name) = Len(name)
                    /\ U16At(LocalRecord(name, data), 26) = Len(name)
                    /\ U16At(CentralRecord(name, data, 0), 28) = Len(name)
                    /\ U32At(LocalRecord(name, data), 18) = Len(data)
                    /\ U32At(CentralRecord(name, data, 0), 20) = Len(data)))

(***************************************************************************)
(* C25  readTemplateFiles excludes everything that could contain secrets   *)
(* or be huge: for every template tree, no file it returns has a relative  *)
(* path that is '.env' or starts with '.env.', lies under venv/ or .venv/, *)
(* lies inside a __pycache__ directory at any depth, or ends in '.pyc'.    *)
(***************************************************************************)
\* What readTemplateFiles returned to the handler of the request.
TemplateFilesRead(q) ==
    IF handler = "route.ts" THEN readTemplateFiles(FolderNameOf(q.body))
    ELSE readTemplateFilesOs(FolderNameOf(q.body), TargetOsOf(q.body))

\* The path of a returned file below the template root.
RelativePath(q, f) == SubSeq(f.path, Len(FolderNameOf(q.body)) + 2, Len(f.path))

InsidePycache(rel) == StartsWith(rel, Tail(PycacheDir)) \/ Includes(rel, PycacheDir)

MayHoldSecretsOrBeHuge(rel) ==
    \/ rel = DotEnv
    \/ StartsWith(rel, DotEnvDot)
    \/ StartsWith(rel, VenvDir)
    \/ StartsWith(rel, DotVenvDir)
    \/ InsidePycache(rel)
    \/ EndsWith(rel, DotPyc)

C25_TemplateExclusions ==
    \A r \in DOMAIN requests :
        LET q == requests[r]
        IN q.zipCalled
             => Once(TemplateFilesRead(q), LAMBDA read :
                    /\ SubSeq(q.zipFiles, 1, Len(read)) = read
                    /\ \A k \in 1..Len(read) :
                          ~MayHoldSecretsOrBeHuge(RelativePath(q, read[k])))

(***************************************************************************)
(* The Turnstile component (Turnstile.tsx).  A mount is one run of the     *)
(* effect of lines 53-91; its cleanup is the unmount.  React runs the      *)
(* effect again after a cleanup on the same component instance (as strict  *)
(* mode and fast refresh do), so the refs and the wizard's state are kept  *)
(* from one mount to the next, while cancelled belongs to one run.         *)
(***************************************************************************)
\* "0x4AAAA": process.env.NEXT_PUBLIC_TURNSTILE_SITE_KEY when it is set
SiteKey == << 48, 120, 52, 65, 65, 65, 65 >>

\* "w1": a widget id, as window.turnstile.render returns it
WidgetId == << 119, 49 >>

\* The wizard's initial state (SetupWizard.tsx lines 18-27).
InitialState == [WizardBody EXCEPT !.turnstileToken = << >>]

\* What a committed render shows and what its closures hold.
Snapshot(s, downloading) == [turnstileToken |-> s.turnstileToken, isDownloading |-> downloading]

InitUi ==
    /\ NoZipView
    /\ pc = "page"
    /\ NoCrcView
    /\ ModuleLoaded
    /\ NoHistory
    /\ NoPostView
    /\ NoFrameView
    /\ siteKey \in {<< >>, SiteKey}
    /\ mounted = FALSE
    /\ scriptTag = FALSE
    /\ turnstile = FALSE
    /\ effects = << >>
    /\ widgetIdRef = Absent
    /\ state = InitialState
    /\ isDownloading = FALSE
    /\ error = Absent
    /\ view = Absent
    /\ attempts = << >>
    /\ posts = << >>

\* One run of the effect: cancelled, whether a setTimeout(tryRender, 100) is pending,
\* how often the run called window.turnstile.render, whether it did so after its
\* cleanup, and whether the cleanup called window.turnstile.reset.
EffectRun(timer, renders) ==
    [cancelled |-> FALSE, timer |-> timer, renders |-> renders, late |-> FALSE,
     reset |-> FALSE]

\* tryRender without its test of cancelled.
Cancelled_Unchecked(run) == FALSE

\* if (cancelled) return;
Cancelled(run) == run.cancelled

\* What window.turnstile.render returns: the widget id, or undefined when it fails.
RenderResults == {WidgetId, Absent}

\* The component is rendered and its effects run.  With a siteKey the first effect adds
\* the script element, the second calls tryRender(), which renders at once when
\* window.turnstile is there and sets the timer when it is not.
Mount ==
    /\ ~mounted
    /\ Len(effects) < MaxMounts
    /\ mounted' = TRUE
    /\ view' = Snapshot(state, isDownloading)
    /\ IF siteKey = << >>
       THEN /\ effects' = Append(effects, EffectRun(FALSE, 0))
            /\ UNCHANGED << scriptTag, widgetIdRef >>
       ELSE /\ scriptTag' = TRUE
            /\ IF ~turnstile
               THEN /\ effects' = Append(effects, EffectRun(TRUE, 0))
                    /\ UNCHANGED widgetIdRef
               ELSE IF widgetIdRef # Absent
               THEN /\ effects' = Append(effects, EffectRun(FALSE, 0))
                    /\ UNCHANGED widgetIdRef
               ELSE /\ effects' = Append(effects, EffectRun(FALSE, 1))
                    /\ widgetIdRef' \in RenderResults
    /\ UNCHANGED << siteKey, turnstile, state, isDownloading, error, attempts, posts >>
    /\ UNCHANGED << zipVars, pc, crcVars, crcTable, history, postVars, frameVars >>

\* The script has loaded: window.turnstile exists from now on.
ScriptLoads ==
    /\ scriptTag
    /\ ~turnstile
    /\ turnstile' = TRUE
    /\ UNCHANGED << siteKey, mounted, scriptTag, effects, widgetIdRef,
                    state, isDownloading, error, view, attempts, posts >>
    /\ UNCHANGED << zipVars, pc, crcVars, crcTable, history, postVars, frameVars >>

\* A timer set by tryRender is due: tryRender runs again.
TimerFires ==
    \E g \in DOMAIN effects :
        /\ effects[g].timer
        /\ IF Cancelled(effects[g])
           THEN /\ effects' = [effects EXCEPT ![g].timer = FALSE]
                /\ UNCHANGED widgetIdRef
           ELSE IF ~turnstile
           THEN UNCHANGED << effects, widgetIdRef >>      \* setTimeout(tryRender, 100)
           ELSE IF widgetIdRef # Absent
           THEN /\ effects' = [effects EXCEPT ![g].timer = FALSE]
                /\ UNCHANGED widgetIdRef
           ELSE /\ effects' = [effects EXCEPT ![g].timer = FALSE,
                                              ![g].renders = @ + 1,
                                              ![g].late = effects[g].cancelled]
                /\ widgetIdRef' \in RenderResults
        /\ UNCHANGED << siteKey, mounted, scriptTag, turnstile,
                        state, isDownloading, error, view, attempts, posts >>
        /\ UNCHANGED << zipVars, pc, crcVars, crcTable, history, postVars, frameVars >>

\* The cleanup of the effect.  Without a siteKey the effect returned no cleanup.
Unmount ==
    /\ mounted
    /\ mounted' = FALSE
    /\ IF siteKey = << >>
       THEN UNCHANGED << effects, widgetIdRef >>
       ELSE /\ effects' = [effects EXCEPT ![Len(effects)].cancelled = TRUE,
                                          ![Len(effects)].reset =
                                              widgetIdRef # Absent /\ turnstile]
            /\ widgetIdRef' = Absent
    /\ UNCHANGED << siteKey, scriptTag, turnstile,
                    state, isDownloading, error, view, attempts, posts >>
    /\ UNCHANGED << zipVars, pc, crcVars, crcTable, history, postVars, frameVars >>

NextTurnstile == Mount \/ ScriptLoads \/ TimerFires \/ Unmount

SpecTurnstile == InitUi /\ [][NextTurnstile]_vars

\* The browser runs a timer that is due.
FairSpecTurnstile == SpecTurnstile /\ WF_vars(TimerFires)

(***************************************************************************)
(* C26  For each mount of the Turnstile component with a non-empty siteKey *)
(* window.turnstile.render is called at most once and never after the      *)
(* unmount, whenever the script becomes available relative to the polling  *)
(* timer; and if the script is available while the component stays         *)
(* mounted, render is eventually called.                                   *)
(***************************************************************************)
RenderedAtMostOnce ==
    \A g \in DOMAIN effects : effects[g].renders <= 1 /\ ~effects[g].late

\* The run g of the effect exists, has a siteKey and has the script.
ReadyToRender(g) ==
    /\ g \in DOMAIN effects
    /\ siteKey # << >>
    /\ turnstile

RenderedOrUnmounted(g) ==
    g \in DOMAIN effects /\ (effects[g].renders = 1 \/ effects[g].cancelled)

C26_RenderOncePerMount ==
    /\ []RenderedAtMostOnce
    /\ \A g \in 1..MaxMounts : ReadyToRender(g) ~> RenderedOrUnmounted(g)

\* The second mount rendered from its timer, after the script loaded, while the timer
\* of the first mount, which never rendered, was unmounted.
C26_Witness ==
    /\ Len(effects) = 2
    /\ mounted
    /\ effects[1].cancelled /\ effects[1].renders = 0
    /\ ~effects[2].timer /\ effects[2].renders = 1
    /\ widgetIdRef = WidgetId

(***************************************************************************)
(* The wizard (SetupWizard.tsx).  state, isDownloading and error are what  *)
(* React holds: a setState call changes them at once.  view is the state   *)
(* of the render React committed last: the closures of that render, which  *)
(* the button calls, hold view until React renders again.                  *)
(***************************************************************************)
\* "Please complete the CAPTCHA before downloading."
CaptchaMessage ==
    << 80, 108, 101, 97, 115, 101, 32, 99, 111, 109, 112, 108, 101, 116, 101, 32, 116, 104, 101, 32, 67, 65, 80, 84, 67, 72, 65, 32, 98, 101, 102, 111, 114, 101, 32, 100, 111, 119, 110, 108, 111, 97, 100, 105, 110, 103, 46 >>

\* "Request failed": what the catch block shows when the request did not succeed
RequestFailed == << 82, 101, 113, 117, 101, 115, 116, 32, 102, 97, 105, 108, 101, 100 >>

\* token callback of the widget: onTokenRef.current(token), which is onCaptchaToken
TokenCallback ==
    /\ mounted
    /\ widgetIdRef = WidgetId
    /\ state' = [state EXCEPT !.turnstileToken = Tok]
    /\ UNCHANGED << siteKey, mounted, scriptTag, turnstile, effects, widgetIdRef,
                    isDownloading, error, view, attempts, posts >>
    /\ UNCHANGED << zipVars, pc, crcVars, crcTable, history, postVars, frameVars >>

\* expired-callback and error-callback of the widget: onTokenRef.current("")
EmptyTokenCallback ==
    /\ mounted
    /\ widgetIdRef = WidgetId
    /\ state' = [state EXCEPT !.turnstileToken = << >>]
    /\ UNCHANGED << siteKey, mounted, scriptTag, turnstile, effects, widgetIdRef,
                    isDownloading, error, view, attempts, posts >>
    /\ UNCHANGED << zipVars, pc, crcVars, crcTable, history, postVars, frameVars >>

\* React renders the wizard again and commits: new closures, the button follows
\* isDownloading.
Render ==
    /\ mounted
    /\ view # Snapshot(state, isDownloading)
    /\ view' = Snapshot(state, isDownloading)
    /\ UNCHANGED << siteKey, mounted, scriptTag, turnstile, effects, widgetIdRef,
                    state, isDownloading, error, attempts, posts >>
    /\ UNCHANGED << zipVars, pc, crcVars, crcTable, history, postVars, frameVars >>

\* onDownload without its test of the token.
HasToken_Always(token) == TRUE

\* if (!state.turnstileToken) throw ...
HasToken(token) == token # << >>

\* A call of onDownload: the token its closure saw, the token React held then, where
\* the call is, whether it sent the request, the error it set and the value it set
\* isDownloading to last.
Attempt(seen, held, at, sent, message, downloading) ==
    [seen |-> seen, held |-> held, pc |-> at, sent |-> sent, error |-> message,
     downloading |-> downloading]

\* A click on the button, which is enabled while the committed render has
\* isDownloading false: onDownload of that render runs up to its first await, or to
\* its end when it throws before.
ClickDownload ==
    /\ mounted
    /\ ~view.isDownloading
    /\ Len(attempts) < MaxAttempts
    /\ IF HasToken(view.turnstileToken)
       THEN /\ posts' = Append(posts, [state EXCEPT !.turnstileToken = view.turnstileToken])
            /\ attempts' = Append(attempts, Attempt(view.turnstileToken, state.turnstileToken,
                                                    "fetch", TRUE, Absent, TRUE))
            /\ error' = Absent
            /\ isDownloading' = TRUE
       ELSE /\ attempts' = Append(attempts, Attempt(view.turnstileToken, state.turnstileToken,
                                                    "done", FALSE, CaptchaMessage, FALSE))
            /\ error' = CaptchaMessage
            /\ isDownloading' = FALSE
            /\ UNCHANGED posts
    /\ UNCHANGED << siteKey, mounted, scriptTag, turnstile, effects, widgetIdRef, state, view >>
    /\ UNCHANGED << zipVars, pc, crcVars, crcTable, history, postVars, frameVars >>

\* How the fetch of an attempt ends: a response with res.ok, one without, or a rejection.
Outcomes == {"ok", "not ok", "rejected"}

\* The rest of onDownload, from the end of await fetch to the end of finally.
ResponseArrives ==
    \E k \in DOMAIN attempts, outcome \in Outcomes :
        /\ attempts[k].pc = "fetch"
        /\ attempts' = [attempts EXCEPT
                           ![k].pc = "done",
                           ![k].downloading = FALSE,
                           ![k].error = IF outcome = "ok" THEN Absent ELSE RequestFailed]
        /\ error' = IF outcome = "ok" THEN error ELSE RequestFailed
        /\ isDownloading' = FALSE
        /\ UNCHANGED << siteKey, mounted, scriptTag, turnstile, effects, widgetIdRef,
                        state, view, posts >>
        /\ UNCHANGED << zipVars, pc, crcVars, crcTable, history, postVars, frameVars >>

NextWizard ==
    \/ Mount
    \/ ScriptLoads
    \/ TimerFires
    \/ Unmount
    \/ TokenCallback
    \/ EmptyTokenCallback
    \/ Render
    \/ ClickDownload
    \/ ResponseArrives

SpecWizard == InitUi /\ [][NextWizard]_vars

(***************************************************************************)
(* C27  The wizard sends the POST to /api/generate only while it holds a   *)
(* non-empty Turnstile token: after the widget's expired or error callback *)
(* and before a new token callback, a download attempt sets an error       *)
(* message, sends no request and ends with isDownloading reset to false.   *)
(***************************************************************************)
\* The attempt ended in the catch block without a request.
RefusedAttempt(a) ==
    /\ ~a.sent
    /\ a.pc = "done"
    /\ a.error = CaptchaMessage
    /\ ~a.downloading

SentAttempts == {k \in DOMAIN attempts : attempts[k].sent}

C27_PostOnlyWithToken ==
    \A k \in DOMAIN attempts : attempts[k].held = << >> => RefusedAttempt(attempts[k])

(***************************************************************************)
(* C27, amended  The token onDownload tests and sends is the one of the    *)
(* render the button belongs to.  A download attempt made from a render    *)
(* whose turnstileToken is empty, as every render after an expired or      *)
(* error callback is until a new token arrives, sets the error message,    *)
(* sends no request and ends with isDownloading false, and every body sent *)
(* carries the non-empty token of its render; an attempt made after the    *)
(* callback and before React has rendered again still sends the old token. *)
(***************************************************************************)
C27_PostOnlyWithRenderedToken ==
    /\ \A k \in DOMAIN attempts :
          /\ attempts[k].seen = << >> => RefusedAttempt(attempts[k])
          /\ attempts[k].seen # << >> => attempts[k].sent
    /\ Len(posts) = Cardinality(SentAttempts)
    /\ \A p \in DOMAIN posts : posts[p].turnstileToken = Tok

\* A first attempt sent the token; then the token expired, the wizard rendered again,
\* and the second attempt was refused: no second request.
C27_Witness ==
    /\ Len(attempts) = 2
    /\ attempts[1].sent /\ attempts[1].seen = Tok /\ attempts[1].pc = "done"
    /\ attempts[2].seen = << >> /\ attempts[2].held = << >>
    /\ RefusedAttempt(attempts[2])
    /\ Len(posts) = 1
    /\ error = CaptchaMessage
    /\ ~isDownloading
====
